---- MODULE Spec2Model ----
(***************************************************************************)
(* Model of the stock-price viewer src/app.py: one Streamlit script that   *)
(* is re-run top to bottom on every user interaction (a "render pass").    *)
(* State that survives a pass: the st.cache_data store of fetch_daily and  *)
(* st.session_state.last_ok.  Everything else is local to one pass.        *)
(* Spec is the session of render passes over tables known by symbol and    *)
(* content; SpecTables applies resample_ohlc and the timeframe / window /   *)
(* moving-average block to daily tables given row by row; SpecObjects is    *)
(* the session of passes over DataFrame objects: which object df, dfp and   *)
(* last_ok refer to, and what lines 96-118 do to each object.               *)
(***************************************************************************)
EXTENDS Integers, Sequences, FiniteSets, TLC

\* ---------------------------------------------------------------- bounds
MaxPasses == 2          \* render passes in one session
MaxTime == 1000         \* the user stops waiting between passes after this
WaitUnit == 460         \* seconds the user lets pass between two passes
MaxVer == 2             \* distinct series contents the remote API can serve

\* ------------------------------------------------------ program constants
TTL == 15 * 60          \* @st.cache_data(ttl=15 * 60)
BackOff == 12           \* time.sleep(12)
API_KEY == "key"        \* st.secrets.get("ALPHAVANTAGE_API_KEY"), non-empty

\* ------------------------------------------------------------- text input
\* A string is a sequence of characters.  A printable ASCII character is a
\* one-character string; any other character is written as its code point
\* ("U+3000"), and so are the double quote and the backslash.
None == <<"<None>">>
RawInputs ==
  { None, << >>, <<" ">>, <<"\r", "\n">>, <<"U+3000">>, <<"a">>, <<" ", "A", " ">>,
    <<"U+3000", "a", "U+00A0">>, <<"7", ".", "t">> }

\* The characters str.strip() removes: those for which str.isspace() holds.
WhiteSpace ==
  { " ", "\t", "\n", "\r", "\f", "U+000B", "U+001C", "U+001D", "U+001E", "U+001F",
    "U+0085", "U+00A0", "U+1680", "U+2000", "U+2001", "U+2002", "U+2003", "U+2004",
    "U+2005", "U+2006", "U+2007", "U+2008", "U+2009", "U+200A", "U+2028", "U+2029",
    "U+202F", "U+205F", "U+3000" }
IsSpace(ch) == ch \in WhiteSpace

\* str.upper() character by character: every character it changes, with the
\* characters it becomes (one, or several as for the sharp s).
UpperTable ==
  {
    <<"a", <<"A">>>>, <<"b", <<"B">>>>, <<"c", <<"C">>>>, <<"d", <<"D">>>>, <<"e", <<"E">>>>,
    <<"f", <<"F">>>>, <<"g", <<"G">>>>, <<"h", <<"H">>>>, <<"i", <<"I">>>>, <<"j", <<"J">>>>,
    <<"k", <<"K">>>>, <<"l", <<"L">>>>, <<"m", <<"M">>>>, <<"n", <<"N">>>>, <<"o", <<"O">>>>,
    <<"p", <<"P">>>>, <<"q", <<"Q">>>>, <<"r", <<"R">>>>, <<"s", <<"S">>>>, <<"t", <<"T">>>>,
    <<"u", <<"U">>>>, <<"v", <<"V">>>>, <<"w", <<"W">>>>, <<"x", <<"X">>>>, <<"y", <<"Y">>>>,
    <<"z", <<"Z">>>>, <<"U+00B5", <<"U+039C">>>>, <<"U+00DF", <<"S", "S">>>>,
    <<"U+00E0", <<"U+00C0">>>>, <<"U+00E1", <<"U+00C1">>>>, <<"U+00E2", <<"U+00C2">>>>,
    <<"U+00E3", <<"U+00C3">>>>, <<"U+00E4", <<"U+00C4">>>>, <<"U+00E5", <<"U+00C5">>>>,
    <<"U+00E6", <<"U+00C6">>>>, <<"U+00E7", <<"U+00C7">>>>, <<"U+00E8", <<"U+00C8">>>>,
    <<"U+00E9", <<"U+00C9">>>>, <<"U+00EA", <<"U+00CA">>>>, <<"U+00EB", <<"U+00CB">>>>,
    <<"U+00EC", <<"U+00CC">>>>, <<"U+00ED", <<"U+00CD">>>>, <<"U+00EE", <<"U+00CE">>>>,
    <<"U+00EF", <<"U+00CF">>>>, <<"U+00F0", <<"U+00D0">>>>, <<"U+00F1", <<"U+00D1">>>>,
    <<"U+00F2", <<"U+00D2">>>>, <<"U+00F3", <<"U+00D3">>>>, <<"U+00F4", <<"U+00D4">>>>,
    <<"U+00F5", <<"U+00D5">>>>, <<"U+00F6", <<"U+00D6">>>>, <<"U+00F8", <<"U+00D8">>>>,
    <<"U+00F9", <<"U+00D9">>>>, <<"U+00FA", <<"U+00DA">>>>, <<"U+00FB", <<"U+00DB">>>>,
    <<"U+00FC", <<"U+00DC">>>>, <<"U+00FD", <<"U+00DD">>>>, <<"U+00FE", <<"U+00DE">>>>,
    <<"U+00FF", <<"U+0178">>>>, <<"U+0101", <<"U+0100">>>>, <<"U+0103", <<"U+0102">>>>,
    <<"U+0105", <<"U+0104">>>>, <<"U+0107", <<"U+0106">>>>, <<"U+0109", <<"U+0108">>>>,
    <<"U+010B", <<"U+010A">>>>, <<"U+010D", <<"U+010C">>>>, <<"U+010F", <<"U+010E">>>>,
    <<"U+0111", <<"U+0110">>>>, <<"U+0113", <<"U+0112">>>>, <<"U+0115", <<"U+0114">>>>,
    <<"U+0117", <<"U+0116">>>>, <<"U+0119", <<"U+0118">>>>, <<"U+011B", <<"U+011A">>>>,
    <<"U+011D", <<"U+011C">>>>, <<"U+011F", <<"U+011E">>>>, <<"U+0121", <<"U+0120">>>>,
    <<"U+0123", <<"U+0122">>>>, <<"U+0125", <<"U+0124">>>>, <<"U+0127", <<"U+0126">>>>,
    <<"U+0129", <<"U+0128">>>>, <<"U+012B", <<"U+012A">>>>, <<"U+012D", <<"U+012C">>>>,
    <<"U+012F", <<"U+012E">>>>, <<"U+0131", <<"I">>>>, <<"U+0133", <<"U+0132">>>>,
    <<"U+0135", <<"U+0134">>>>, <<"U+0137", <<"U+0136">>>>, <<"U+013A", <<"U+0139">>>>,
    <<"U+013C", <<"U+013B">>>>, <<"U+013E", <<"U+013D">>>>, <<"U+0140", <<"U+013F">>>>,
    <<"U+0142", <<"U+0141">>>>, <<"U+0144", <<"U+0143">>>>, <<"U+0146", <<"U+0145">>>>,
    <<"U+0148", <<"U+0147">>>>, <<"U+0149", <<"U+02BC", "N">>>>, <<"U+014B", <<"U+014A">>>>,
    <<"U+014D", <<"U+014C">>>>, <<"U+014F", <<"U+014E">>>>, <<"U+0151", <<"U+0150">>>>,
    <<"U+0153", <<"U+0152">>>>, <<"U+0155", <<"U+0154">>>>, <<"U+0157", <<"U+0156">>>>,
    <<"U+0159", <<"U+0158">>>>, <<"U+015B", <<"U+015A">>>>, <<"U+015D", <<"U+015C">>>>,
    <<"U+015F", <<"U+015E">>>>, <<"U+0161", <<"U+0160">>>>, <<"U+0163", <<"U+0162">>>>,
    <<"U+0165", <<"U+0164">>>>, <<"U+0167", <<"U+0166">>>>, <<"U+0169", <<"U+0168">>>>,
    <<"U+016B", <<"U+016A">>>>, <<"U+016D", <<"U+016C">>>>, <<"U+016F", <<"U+016E">>>>,
    <<"U+0171", <<"U+0170">>>>, <<"U+0173", <<"U+0172">>>>, <<"U+0175", <<"U+0174">>>>,
    <<"U+0177", <<"U+0176">>>>, <<"U+017A", <<"U+0179">>>>, <<"U+017C", <<"U+017B">>>>,
    <<"U+017E", <<"U+017D">>>>, <<"U+017F", <<"S">>>>, <<"U+0180", <<"U+0243">>>>,
    <<"U+0183", <<"U+0182">>>>, <<"U+0185", <<"U+0184">>>>, <<"U+0188", <<"U+0187">>>>,
    <<"U+018C", <<"U+018B">>>>, <<"U+0192", <<"U+0191">>>>, <<"U+0195", <<"U+01F6">>>>,
    <<"U+0199", <<"U+0198">>>>, <<"U+019A", <<"U+023D">>>>, <<"U+019E", <<"U+0220">>>>,
    <<"U+01A1", <<"U+01A0">>>>, <<"U+01A3", <<"U+01A2">>>>, <<"U+01A5", <<"U+01A4">>>>,
    <<"U+01A8", <<"U+01A7">>>>, <<"U+01AD", <<"U+01AC">>>>, <<"U+01B0", <<"U+01AF">>>>,
    <<"U+01B4", <<"U+01B3">>>>, <<"U+01B6", <<"U+01B5">>>>, <<"U+01B9", <<"U+01B8">>>>,
    <<"U+01BD", <<"U+01BC">>>>, <<"U+01BF", <<"U+01F7">>>>, <<"U+01C5", <<"U+01C4">>>>,
    <<"U+01C6", <<"U+01C4">>>>, <<"U+01C8", <<"U+01C7">>>>, <<"U+01C9", <<"U+01C7">>>>,
    <<"U+01CB", <<"U+01CA">>>>, <<"U+01CC", <<"U+01CA">>>>, <<"U+01CE", <<"U+01CD">>>>,
    <<"U+01D0", <<"U+01CF">>>>, <<"U+01D2", <<"U+01D1">>>>, <<"U+01D4", <<"U+01D3">>>>,
    <<"U+01D6", <<"U+01D5">>>>, <<"U+01D8", <<"U+01D7">>>>, <<"U+01DA", <<"U+01D9">>>>,
    <<"U+01DC", <<"U+01DB">>>>, <<"U+01DD", <<"U+018E">>>>, <<"U+01DF", <<"U+01DE">>>>,
    <<"U+01E1", <<"U+01E0">>>>, <<"U+01E3", <<"U+01E2">>>>, <<"U+01E5", <<"U+01E4">>>>,
    <<"U+01E7", <<"U+01E6">>>>, <<"U+01E9", <<"U+01E8">>>>, <<"U+01EB", <<"U+01EA">>>>,
    <<"U+01ED", <<"U+01EC">>>>, <<"U+01EF", <<"U+01EE">>>>, <<"U+01F0", <<"J", "U+030C">>>>,
    <<"U+01F2", <<"U+01F1">>>>, <<"U+01F3", <<"U+01F1">>>>, <<"U+01F5", <<"U+01F4">>>>,
    <<"U+01F9", <<"U+01F8">>>>, <<"U+01FB", <<"U+01FA">>>>, <<"U+01FD", <<"U+01FC">>>>,
    <<"U+01FF", <<"U+01FE">>>>, <<"U+0201", <<"U+0200">>>>, <<"U+0203", <<"U+0202">>>>,
    <<"U+0205", <<"U+0204">>>>, <<"U+0207", <<"U+0206">>>>, <<"U+0209", <<"U+0208">>>>,
    <<"U+020B", <<"U+020A">>>>, <<"U+020D", <<"U+020C">>>>, <<"U+020F", <<"U+020E">>>>,
    <<"U+0211", <<"U+0210">>>>, <<"U+0213", <<"U+0212">>>>, <<"U+0215", <<"U+0214">>>>,
    <<"U+0217", <<"U+0216">>>>, <<"U+0219", <<"U+0218">>>>, <<"U+021B", <<"U+021A">>>>,
    <<"U+021D", <<"U+021C">>>>, <<"U+021F", <<"U+021E">>>>, <<"U+0223", <<"U+0222">>>>,
    <<"U+0225", <<"U+0224">>>>, <<"U+0227", <<"U+0226">>>>, <<"U+0229", <<"U+0228">>>>,
    <<"U+022B", <<"U+022A">>>>, <<"U+022D", <<"U+022C">>>>, <<"U+022F", <<"U+022E">>>>,
    <<"U+0231", <<"U+0230">>>>, <<"U+0233", <<"U+0232">>>>, <<"U+023C", <<"U+023B">>>>,
    <<"U+023F", <<"U+2C7E">>>>, <<"U+0240", <<"U+2C7F">>>>, <<"U+0242", <<"U+0241">>>>,
    <<"U+0247", <<"U+0246">>>>, <<"U+0249", <<"U+0248">>>>, <<"U+024B", <<"U+024A">>>>,
    <<"U+024D", <<"U+024C">>>>, <<"U+024F", <<"U+024E">>>>, <<"U+0250", <<"U+2C6F">>>>,
    <<"U+0251", <<"U+2C6D">>>>, <<"U+0252", <<"U+2C70">>>>, <<"U+0253", <<"U+0181">>>>,
    <<"U+0254", <<"U+0186">>>>, <<"U+0256", <<"U+0189">>>>, <<"U+0257", <<"U+018A">>>>,
    <<"U+0259", <<"U+018F">>>>, <<"U+025B", <<"U+0190">>>>, <<"U+025C", <<"U+A7AB">>>>,
    <<"U+0260", <<"U+0193">>>>, <<"U+0261", <<"U+A7AC">>>>, <<"U+0263", <<"U+0194">>>>,
    <<"U+0265", <<"U+A78D">>>>, <<"U+0266", <<"U+A7AA">>>>, <<"U+0268", <<"U+0197">>>>,
    <<"U+0269", <<"U+0196">>>>, <<"U+026A", <<"U+A7AE">>>>, <<"U+026B", <<"U+2C62">>>>,
    <<"U+026C", <<"U+A7AD">>>>, <<"U+026F", <<"U+019C">>>>, <<"U+0271", <<"U+2C6E">>>>,
    <<"U+0272", <<"U+019D">>>>, <<"U+0275", <<"U+019F">>>>, <<"U+027D", <<"U+2C64">>>>,
    <<"U+0280", <<"U+01A6">>>>, <<"U+0282", <<"U+A7C5">>>>, <<"U+0283", <<"U+01A9">>>>,
    <<"U+0287", <<"U+A7B1">>>>, <<"U+0288", <<"U+01AE">>>>, <<"U+0289", <<"U+0244">>>>,
    <<"U+028A", <<"U+01B1">>>>, <<"U+028B", <<"U+01B2">>>>, <<"U+028C", <<"U+0245">>>>,
    <<"U+0292", <<"U+01B7">>>>, <<"U+029D", <<"U+A7B2">>>>, <<"U+029E", <<"U+A7B0">>>>,
    <<"U+0345", <<"U+0399">>>>, <<"U+0371", <<"U+0370">>>>, <<"U+0373", <<"U+0372">>>>,
    <<"U+0377", <<"U+0376">>>>, <<"U+037B", <<"U+03FD">>>>, <<"U+037C", <<"U+03FE">>>>,
    <<"U+037D", <<"U+03FF">>>>, <<"U+0390", <<"U+0399", "U+0308", "U+0301">>>>,
    <<"U+03AC", <<"U+0386">>>>, <<"U+03AD", <<"U+0388">>>>, <<"U+03AE", <<"U+0389">>>>,
    <<"U+03AF", <<"U+038A">>>>, <<"U+03B0", <<"U+03A5", "U+0308", "U+0301">>>>,
    <<"U+03B1", <<"U+0391">>>>, <<"U+03B2", <<"U+0392">>>>, <<"U+03B3", <<"U+0393">>>>,
    <<"U+03B4", <<"U+0394">>>>, <<"U+03B5", <<"U+0395">>>>, <<"U+03B6", <<"U+0396">>>>,
    <<"U+03B7", <<"U+0397">>>>, <<"U+03B8", <<"U+0398">>>>, <<"U+03B9", <<"U+0399">>>>,
    <<"U+03BA", <<"U+039A">>>>, <<"U+03BB", <<"U+039B">>>>, <<"U+03BC", <<"U+039C">>>>,
    <<"U+03BD", <<"U+039D">>>>, <<"U+03BE", <<"U+039E">>>>, <<"U+03BF", <<"U+039F">>>>,
    <<"U+03C0", <<"U+03A0">>>>, <<"U+03C1", <<"U+03A1">>>>, <<"U+03C2", <<"U+03A3">>>>,
    <<"U+03C3", <<"U+03A3">>>>, <<"U+03C4", <<"U+03A4">>>>, <<"U+03C5", <<"U+03A5">>>>,
    <<"U+03C6", <<"U+03A6">>>>, <<"U+03C7", <<"U+03A7">>>>, <<"U+03C8", <<"U+03A8">>>>,
    <<"U+03C9", <<"U+03A9">>>>, <<"U+03CA", <<"U+03AA">>>>, <<"U+03CB", <<"U+03AB">>>>,
    <<"U+03CC", <<"U+038C">>>>, <<"U+03CD", <<"U+038E">>>>, <<"U+03CE", <<"U+038F">>>>,
    <<"U+03D0", <<"U+0392">>>>, <<"U+03D1", <<"U+0398">>>>, <<"U+03D5", <<"U+03A6">>>>,
    <<"U+03D6", <<"U+03A0">>>>, <<"U+03D7", <<"U+03CF">>>>, <<"U+03D9", <<"U+03D8">>>>,
    <<"U+03DB", <<"U+03DA">>>>, <<"U+03DD", <<"U+03DC">>>>, <<"U+03DF", <<"U+03DE">>>>,
    <<"U+03E1", <<"U+03E0">>>>, <<"U+03E3", <<"U+03E2">>>>, <<"U+03E5", <<"U+03E4">>>>,
    <<"U+03E7", <<"U+03E6">>>>, <<"U+03E9", <<"U+03E8">>>>, <<"U+03EB", <<"U+03EA">>>>,
    <<"U+03ED", <<"U+03EC">>>>, <<"U+03EF", <<"U+03EE">>>>, <<"U+03F0", <<"U+039A">>>>,
    <<"U+03F1", <<"U+03A1">>>>, <<"U+03F2", <<"U+03F9">>>>, <<"U+03F3", <<"U+037F">>>>,
    <<"U+03F5", <<"U+0395">>>>, <<"U+03F8", <<"U+03F7">>>>, <<"U+03FB", <<"U+03FA">>>>,
    <<"U+0430", <<"U+0410">>>>, <<"U+0431", <<"U+0411">>>>, <<"U+0432", <<"U+0412">>>>,
    <<"U+0433", <<"U+0413">>>>, <<"U+0434", <<"U+0414">>>>, <<"U+0435", <<"U+0415">>>>,
    <<"U+0436", <<"U+0416">>>>, <<"U+0437", <<"U+0417">>>>, <<"U+0438", <<"U+0418">>>>,
    <<"U+0439", <<"U+0419">>>>, <<"U+043A", <<"U+041A">>>>, <<"U+043B", <<"U+041B">>>>,
    <<"U+043C", <<"U+041C">>>>, <<"U+043D", <<"U+041D">>>>, <<"U+043E", <<"U+041E">>>>,
    <<"U+043F", <<"U+041F">>>>, <<"U+0440", <<"U+0420">>>>, <<"U+0441", <<"U+0421">>>>,
    <<"U+0442", <<"U+0422">>>>, <<"U+0443", <<"U+0423">>>>, <<"U+0444", <<"U+0424">>>>,
    <<"U+0445", <<"U+0425">>>>, <<"U+0446", <<"U+0426">>>>, <<"U+0447", <<"U+0427">>>>,
    <<"U+0448", <<"U+0428">>>>, <<"U+0449", <<"U+0429">>>>, <<"U+044A", <<"U+042A">>>>,
    <<"U+044B", <<"U+042B">>>>, <<"U+044C", <<"U+042C">>>>, <<"U+044D", <<"U+042D">>>>,
    <<"U+044E", <<"U+042E">>>>, <<"U+044F", <<"U+042F">>>>, <<"U+0450", <<"U+0400">>>>,
    <<"U+0451", <<"U+0401">>>>, <<"U+0452", <<"U+0402">>>>, <<"U+0453", <<"U+0403">>>>,
    <<"U+0454", <<"U+0404">>>>, <<"U+0455", <<"U+0405">>>>, <<"U+0456", <<"U+0406">>>>,
    <<"U+0457", <<"U+0407">>>>, <<"U+0458", <<"U+0408">>>>, <<"U+0459", <<"U+0409">>>>,
    <<"U+045A", <<"U+040A">>>>, <<"U+045B", <<"U+040B">>>>, <<"U+045C", <<"U+040C">>>>,
    <<"U+045D", <<"U+040D">>>>, <<"U+045E", <<"U+040E">>>>, <<"U+045F", <<"U+040F">>>>,
    <<"U+0461", <<"U+0460">>>>, <<"U+0463", <<"U+0462">>>>, <<"U+0465", <<"U+0464">>>>,
    <<"U+0467", <<"U+0466">>>>, <<"U+0469", <<"U+0468">>>>, <<"U+046B", <<"U+046A">>>>,
    <<"U+046D", <<"U+046C">>>>, <<"U+046F", <<"U+046E">>>>, <<"U+0471", <<"U+0470">>>>,
    <<"U+0473", <<"U+0472">>>>, <<"U+0475", <<"U+0474">>>>, <<"U+0477", <<"U+0476">>>>,
    <<"U+0479", <<"U+0478">>>>, <<"U+047B", <<"U+047A">>>>, <<"U+047D", <<"U+047C">>>>,
    <<"U+047F", <<"U+047E">>>>, <<"U+0481", <<"U+0480">>>>, <<"U+048B", <<"U+048A">>>>,
    <<"U+048D", <<"U+048C">>>>, <<"U+048F", <<"U+048E">>>>, <<"U+0491", <<"U+0490">>>>,
    <<"U+0493", <<"U+0492">>>>, <<"U+0495", <<"U+0494">>>>, <<"U+0497", <<"U+0496">>>>,
    <<"U+0499", <<"U+0498">>>>, <<"U+049B", <<"U+049A">>>>, <<"U+049D", <<"U+049C">>>>,
    <<"U+049F", <<"U+049E">>>>, <<"U+04A1", <<"U+04A0">>>>, <<"U+04A3", <<"U+04A2">>>>,
    <<"U+04A5", <<"U+04A4">>>>, <<"U+04A7", <<"U+04A6">>>>, <<"U+04A9", <<"U+04A8">>>>,
    <<"U+04AB", <<"U+04AA">>>>, <<"U+04AD", <<"U+04AC">>>>, <<"U+04AF", <<"U+04AE">>>>,
    <<"U+04B1", <<"U+04B0">>>>, <<"U+04B3", <<"U+04B2">>>>, <<"U+04B5", <<"U+04B4">>>>,
    <<"U+04B7", <<"U+04B6">>>>, <<"U+04B9", <<"U+04B8">>>>, <<"U+04BB", <<"U+04BA">>>>,
    <<"U+04BD", <<"U+04BC">>>>, <<"U+04BF", <<"U+04BE">>>>, <<"U+04C2", <<"U+04C1">>>>,
    <<"U+04C4", <<"U+04C3">>>>, <<"U+04C6", <<"U+04C5">>>>, <<"U+04C8", <<"U+04C7">>>>,
    <<"U+04CA", <<"U+04C9">>>>, <<"U+04CC", <<"U+04CB">>>>, <<"U+04CE", <<"U+04CD">>>>,
    <<"U+04CF", <<"U+04C0">>>>, <<"U+04D1", <<"U+04D0">>>>, <<"U+04D3", <<"U+04D2">>>>,
    <<"U+04D5", <<"U+04D4">>>>, <<"U+04D7", <<"U+04D6">>>>, <<"U+04D9", <<"U+04D8">>>>,
    <<"U+04DB", <<"U+04DA">>>>, <<"U+04DD", <<"U+04DC">>>>, <<"U+04DF", <<"U+04DE">>>>,
    <<"U+04E1", <<"U+04E0">>>>, <<"U+04E3", <<"U+04E2">>>>, <<"U+04E5", <<"U+04E4">>>>,
    <<"U+04E7", <<"U+04E6">>>>, <<"U+04E9", <<"U+04E8">>>>, <<"U+04EB", <<"U+04EA">>>>,
    <<"U+04ED", <<"U+04EC">>>>, <<"U+04EF", <<"U+04EE">>>>, <<"U+04F1", <<"U+04F0">>>>,
    <<"U+04F3", <<"U+04F2">>>>, <<"U+04F5", <<"U+04F4">>>>, <<"U+04F7", <<"U+04F6">>>>,
    <<"U+04F9", <<"U+04F8">>>>, <<"U+04FB", <<"U+04FA">>>>, <<"U+04FD", <<"U+04FC">>>>,
    <<"U+04FF", <<"U+04FE">>>>, <<"U+0501", <<"U+0500">>>>, <<"U+0503", <<"U+0502">>>>,
    <<"U+0505", <<"U+0504">>>>, <<"U+0507", <<"U+0506">>>>, <<"U+0509", <<"U+0508">>>>,
    <<"U+050B", <<"U+050A">>>>, <<"U+050D", <<"U+050C">>>>, <<"U+050F", <<"U+050E">>>>,
    <<"U+0511", <<"U+0510">>>>, <<"U+0513", <<"U+0512">>>>, <<"U+0515", <<"U+0514">>>>,
    <<"U+0517", <<"U+0516">>>>, <<"U+0519", <<"U+0518">>>>, <<"U+051B", <<"U+051A">>>>,
    <<"U+051D", <<"U+051C">>>>, <<"U+051F", <<"U+051E">>>>, <<"U+0521", <<"U+0520">>>>,
    <<"U+0523", <<"U+0522">>>>, <<"U+0525", <<"U+0524">>>>, <<"U+0527", <<"U+0526">>>>,
    <<"U+0529", <<"U+0528">>>>, <<"U+052B", <<"U+052A">>>>, <<"U+052D", <<"U+052C">>>>,
    <<"U+052F", <<"U+052E">>>>, <<"U+0561", <<"U+0531">>>>, <<"U+0562", <<"U+0532">>>>,
    <<"U+0563", <<"U+0533">>>>, <<"U+0564", <<"U+0534">>>>, <<"U+0565", <<"U+0535">>>>,
    <<"U+0566", <<"U+0536">>>>, <<"U+0567", <<"U+0537">>>>, <<"U+0568", <<"U+0538">>>>,
    <<"U+0569", <<"U+0539">>>>, <<"U+056A", <<"U+053A">>>>, <<"U+056B", <<"U+053B">>>>,
    <<"U+056C", <<"U+053C">>>>, <<"U+056D", <<"U+053D">>>>, <<"U+056E", <<"U+053E">>>>,
    <<"U+056F", <<"U+053F">>>>, <<"U+0570", <<"U+0540">>>>, <<"U+0571", <<"U+0541">>>>,
    <<"U+0572", <<"U+0542">>>>, <<"U+0573", <<"U+0543">>>>, <<"U+0574", <<"U+0544">>>>,
    <<"U+0575", <<"U+0545">>>>, <<"U+0576", <<"U+0546">>>>, <<"U+0577", <<"U+0547">>>>,
    <<"U+0578", <<"U+0548">>>>, <<"U+0579", <<"U+0549">>>>, <<"U+057A", <<"U+054A">>>>,
    <<"U+057B", <<"U+054B">>>>, <<"U+057C", <<"U+054C">>>>, <<"U+057D", <<"U+054D">>>>,
    <<"U+057E", <<"U+054E">>>>, <<"U+057F", <<"U+054F">>>>, <<"U+0580", <<"U+0550">>>>,
    <<"U+0581", <<"U+0551">>>>, <<"U+0582", <<"U+0552">>>>, <<"U+0583", <<"U+0553">>>>,
    <<"U+0584", <<"U+0554">>>>, <<"U+0585", <<"U+0555">>>>, <<"U+0586", <<"U+0556">>>>,
    <<"U+0587", <<"U+0535", "U+0552">>>>, <<"U+10D0", <<"U+1C90">>>>,
    <<"U+10D1", <<"U+1C91">>>>, <<"U+10D2", <<"U+1C92">>>>, <<"U+10D3", <<"U+1C93">>>>,
    <<"U+10D4", <<"U+1C94">>>>, <<"U+10D5", <<"U+1C95">>>>, <<"U+10D6", <<"U+1C96">>>>,
    <<"U+10D7", <<"U+1C97">>>>, <<"U+10D8", <<"U+1C98">>>>, <<"U+10D9", <<"U+1C99">>>>,
    <<"U+10DA", <<"U+1C9A">>>>, <<"U+10DB", <<"U+1C9B">>>>, <<"U+10DC", <<"U+1C9C">>>>,
    <<"U+10DD", <<"U+1C9D">>>>, <<"U+10DE", <<"U+1C9E">>>>, <<"U+10DF", <<"U+1C9F">>>>,
    <<"U+10E0", <<"U+1CA0">>>>, <<"U+10E1", <<"U+1CA1">>>>, <<"U+10E2", <<"U+1CA2">>>>,
    <<"U+10E3", <<"U+1CA3">>>>, <<"U+10E4", <<"U+1CA4">>>>, <<"U+10E5", <<"U+1CA5">>>>,
    <<"U+10E6", <<"U+1CA6">>>>, <<"U+10E7", <<"U+1CA7">>>>, <<"U+10E8", <<"U+1CA8">>>>,
    <<"U+10E9", <<"U+1CA9">>>>, <<"U+10EA", <<"U+1CAA">>>>, <<"U+10EB", <<"U+1CAB">>>>,
    <<"U+10EC", <<"U+1CAC">>>>, <<"U+10ED", <<"U+1CAD">>>>, <<"U+10EE", <<"U+1CAE">>>>,
    <<"U+10EF", <<"U+1CAF">>>>, <<"U+10F0", <<"U+1CB0">>>>, <<"U+10F1", <<"U+1CB1">>>>,
    <<"U+10F2", <<"U+1CB2">>>>, <<"U+10F3", <<"U+1CB3">>>>, <<"U+10F4", <<"U+1CB4">>>>,
    <<"U+10F5", <<"U+1CB5">>>>, <<"U+10F6", <<"U+1CB6">>>>, <<"U+10F7", <<"U+1CB7">>>>,
    <<"U+10F8", <<"U+1CB8">>>>, <<"U+10F9", <<"U+1CB9">>>>, <<"U+10FA", <<"U+1CBA">>>>,
    <<"U+10FD", <<"U+1CBD">>>>, <<"U+10FE", <<"U+1CBE">>>>, <<"U+10FF", <<"U+1CBF">>>>,
    <<"U+13F8", <<"U+13F0">>>>, <<"U+13F9", <<"U+13F1">>>>, <<"U+13FA", <<"U+13F2">>>>,
    <<"U+13FB", <<"U+13F3">>>>, <<"U+13FC", <<"U+13F4">>>>, <<"U+13FD", <<"U+13F5">>>>,
    <<"U+1C80", <<"U+0412">>>>, <<"U+1C81", <<"U+0414">>>>, <<"U+1C82", <<"U+041E">>>>,
    <<"U+1C83", <<"U+0421">>>>, <<"U+1C84", <<"U+0422">>>>, <<"U+1C85", <<"U+0422">>>>,
    <<"U+1C86", <<"U+042A">>>>, <<"U+1C87", <<"U+0462">>>>, <<"U+1C88", <<"U+A64A">>>>,
    <<"U+1D79", <<"U+A77D">>>>, <<"U+1D7D", <<"U+2C63">>>>, <<"U+1D8E", <<"U+A7C6">>>>,
    <<"U+1E01", <<"U+1E00">>>>, <<"U+1E03", <<"U+1E02">>>>, <<"U+1E05", <<"U+1E04">>>>,
    <<"U+1E07", <<"U+1E06">>>>, <<"U+1E09", <<"U+1E08">>>>, <<"U+1E0B", <<"U+1E0A">>>>,
    <<"U+1E0D", <<"U+1E0C">>>>, <<"U+1E0F", <<"U+1E0E">>>>, <<"U+1E11", <<"U+1E10">>>>,
    <<"U+1E13", <<"U+1E12">>>>, <<"U+1E15", <<"U+1E14">>>>, <<"U+1E17", <<"U+1E16">>>>,
    <<"U+1E19", <<"U+1E18">>>>, <<"U+1E1B", <<"U+1E1A">>>>, <<"U+1E1D", <<"U+1E1C">>>>,
    <<"U+1E1F", <<"U+1E1E">>>>, <<"U+1E21", <<"U+1E20">>>>, <<"U+1E23", <<"U+1E22">>>>,
    <<"U+1E25", <<"U+1E24">>>>, <<"U+1E27", <<"U+1E26">>>>, <<"U+1E29", <<"U+1E28">>>>,
    <<"U+1E2B", <<"U+1E2A">>>>, <<"U+1E2D", <<"U+1E2C">>>>, <<"U+1E2F", <<"U+1E2E">>>>,
    <<"U+1E31", <<"U+1E30">>>>, <<"U+1E33", <<"U+1E32">>>>, <<"U+1E35", <<"U+1E34">>>>,
    <<"U+1E37", <<"U+1E36">>>>, <<"U+1E39", <<"U+1E38">>>>, <<"U+1E3B", <<"U+1E3A">>>>,
    <<"U+1E3D", <<"U+1E3C">>>>, <<"U+1E3F", <<"U+1E3E">>>>, <<"U+1E41", <<"U+1E40">>>>,
    <<"U+1E43", <<"U+1E42">>>>, <<"U+1E45", <<"U+1E44">>>>, <<"U+1E47", <<"U+1E46">>>>,
    <<"U+1E49", <<"U+1E48">>>>, <<"U+1E4B", <<"U+1E4A">>>>, <<"U+1E4D", <<"U+1E4C">>>>,
    <<"U+1E4F", <<"U+1E4E">>>>, <<"U+1E51", <<"U+1E50">>>>, <<"U+1E53", <<"U+1E52">>>>,
    <<"U+1E55", <<"U+1E54">>>>, <<"U+1E57", <<"U+1E56">>>>, <<"U+1E59", <<"U+1E58">>>>,
    <<"U+1E5B", <<"U+1E5A">>>>, <<"U+1E5D", <<"U+1E5C">>>>, <<"U+1E5F", <<"U+1E5E">>>>,
    <<"U+1E61", <<"U+1E60">>>>, <<"U+1E63", <<"U+1E62">>>>, <<"U+1E65", <<"U+1E64">>>>,
    <<"U+1E67", <<"U+1E66">>>>, <<"U+1E69", <<"U+1E68">>>>, <<"U+1E6B", <<"U+1E6A">>>>,
    <<"U+1E6D", <<"U+1E6C">>>>, <<"U+1E6F", <<"U+1E6E">>>>, <<"U+1E71", <<"U+1E70">>>>,
    <<"U+1E73", <<"U+1E72">>>>, <<"U+1E75", <<"U+1E74">>>>, <<"U+1E77", <<"U+1E76">>>>,
    <<"U+1E79", <<"U+1E78">>>>, <<"U+1E7B", <<"U+1E7A">>>>, <<"U+1E7D", <<"U+1E7C">>>>,
    <<"U+1E7F", <<"U+1E7E">>>>, <<"U+1E81", <<"U+1E80">>>>, <<"U+1E83", <<"U+1E82">>>>,
    <<"U+1E85", <<"U+1E84">>>>, <<"U+1E87", <<"U+1E86">>>>, <<"U+1E89", <<"U+1E88">>>>,
    <<"U+1E8B", <<"U+1E8A">>>>, <<"U+1E8D", <<"U+1E8C">>>>, <<"U+1E8F", <<"U+1E8E">>>>,
    <<"U+1E91", <<"U+1E90">>>>, <<"U+1E93", <<"U+1E92">>>>, <<"U+1E95", <<"U+1E94">>>>,
    <<"U+1E96", <<"H", "U+0331">>>>, <<"U+1E97", <<"T", "U+0308">>>>,
    <<"U+1E98", <<"W", "U+030A">>>>, <<"U+1E99", <<"Y", "U+030A">>>>,
    <<"U+1E9A", <<"A", "U+02BE">>>>, <<"U+1E9B", <<"U+1E60">>>>, <<"U+1EA1", <<"U+1EA0">>>>,
    <<"U+1EA3", <<"U+1EA2">>>>, <<"U+1EA5", <<"U+1EA4">>>>, <<"U+1EA7", <<"U+1EA6">>>>,
    <<"U+1EA9", <<"U+1EA8">>>>, <<"U+1EAB", <<"U+1EAA">>>>, <<"U+1EAD", <<"U+1EAC">>>>,
    <<"U+1EAF", <<"U+1EAE">>>>, <<"U+1EB1", <<"U+1EB0">>>>, <<"U+1EB3", <<"U+1EB2">>>>,
    <<"U+1EB5", <<"U+1EB4">>>>, <<"U+1EB7", <<"U+1EB6">>>>, <<"U+1EB9", <<"U+1EB8">>>>,
    <<"U+1EBB", <<"U+1EBA">>>>, <<"U+1EBD", <<"U+1EBC">>>>, <<"U+1EBF", <<"U+1EBE">>>>,
    <<"U+1EC1", <<"U+1EC0">>>>, <<"U+1EC3", <<"U+1EC2">>>>, <<"U+1EC5", <<"U+1EC4">>>>,
    <<"U+1EC7", <<"U+1EC6">>>>, <<"U+1EC9", <<"U+1EC8">>>>, <<"U+1ECB", <<"U+1ECA">>>>,
    <<"U+1ECD", <<"U+1ECC">>>>, <<"U+1ECF", <<"U+1ECE">>>>, <<"U+1ED1", <<"U+1ED0">>>>,
    <<"U+1ED3", <<"U+1ED2">>>>, <<"U+1ED5", <<"U+1ED4">>>>, <<"U+1ED7", <<"U+1ED6">>>>,
    <<"U+1ED9", <<"U+1ED8">>>>, <<"U+1EDB", <<"U+1EDA">>>>, <<"U+1EDD", <<"U+1EDC">>>>,
    <<"U+1EDF", <<"U+1EDE">>>>, <<"U+1EE1", <<"U+1EE0">>>>, <<"U+1EE3", <<"U+1EE2">>>>,
    <<"U+1EE5", <<"U+1EE4">>>>, <<"U+1EE7", <<"U+1EE6">>>>, <<"U+1EE9", <<"U+1EE8">>>>,
    <<"U+1EEB", <<"U+1EEA">>>>, <<"U+1EED", <<"U+1EEC">>>>, <<"U+1EEF", <<"U+1EEE">>>>,
    <<"U+1EF1", <<"U+1EF0">>>>, <<"U+1EF3", <<"U+1EF2">>>>, <<"U+1EF5", <<"U+1EF4">>>>,
    <<"U+1EF7", <<"U+1EF6">>>>, <<"U+1EF9", <<"U+1EF8">>>>, <<"U+1EFB", <<"U+1EFA">>>>,
    <<"U+1EFD", <<"U+1EFC">>>>, <<"U+1EFF", <<"U+1EFE">>>>, <<"U+1F00", <<"U+1F08">>>>,
    <<"U+1F01", <<"U+1F09">>>>, <<"U+1F02", <<"U+1F0A">>>>, <<"U+1F03", <<"U+1F0B">>>>,
    <<"U+1F04", <<"U+1F0C">>>>, <<"U+1F05", <<"U+1F0D">>>>, <<"U+1F06", <<"U+1F0E">>>>,
    <<"U+1F07", <<"U+1F0F">>>>, <<"U+1F10", <<"U+1F18">>>>, <<"U+1F11", <<"U+1F19">>>>,
    <<"U+1F12", <<"U+1F1A">>>>, <<"U+1F13", <<"U+1F1B">>>>, <<"U+1F14", <<"U+1F1C">>>>,
    <<"U+1F15", <<"U+1F1D">>>>, <<"U+1F20", <<"U+1F28">>>>, <<"U+1F21", <<"U+1F29">>>>,
    <<"U+1F22", <<"U+1F2A">>>>, <<"U+1F23", <<"U+1F2B">>>>, <<"U+1F24", <<"U+1F2C">>>>,
    <<"U+1F25", <<"U+1F2D">>>>, <<"U+1F26", <<"U+1F2E">>>>, <<"U+1F27", <<"U+1F2F">>>>,
    <<"U+1F30", <<"U+1F38">>>>, <<"U+1F31", <<"U+1F39">>>>, <<"U+1F32", <<"U+1F3A">>>>,
    <<"U+1F33", <<"U+1F3B">>>>, <<"U+1F34", <<"U+1F3C">>>>, <<"U+1F35", <<"U+1F3D">>>>,
    <<"U+1F36", <<"U+1F3E">>>>, <<"U+1F37", <<"U+1F3F">>>>, <<"U+1F40", <<"U+1F48">>>>,
    <<"U+1F41", <<"U+1F49">>>>, <<"U+1F42", <<"U+1F4A">>>>, <<"U+1F43", <<"U+1F4B">>>>,
    <<"U+1F44", <<"U+1F4C">>>>, <<"U+1F45", <<"U+1F4D">>>>,
    <<"U+1F50", <<"U+03A5", "U+0313">>>>, <<"U+1F51", <<"U+1F59">>>>,
    <<"U+1F52", <<"U+03A5", "U+0313", "U+0300">>>>, <<"U+1F53", <<"U+1F5B">>>>,
    <<"U+1F54", <<"U+03A5", "U+0313", "U+0301">>>>, <<"U+1F55", <<"U+1F5D">>>>,
    <<"U+1F56", <<"U+03A5", "U+0313", "U+0342">>>>, <<"U+1F57", <<"U+1F5F">>>>,
    <<"U+1F60", <<"U+1F68">>>>, <<"U+1F61", <<"U+1F69">>>>, <<"U+1F62", <<"U+1F6A">>>>,
    <<"U+1F63", <<"U+1F6B">>>>, <<"U+1F64", <<"U+1F6C">>>>, <<"U+1F65", <<"U+1F6D">>>>,
    <<"U+1F66", <<"U+1F6E">>>>, <<"U+1F67", <<"U+1F6F">>>>, <<"U+1F70", <<"U+1FBA">>>>,
    <<"U+1F71", <<"U+1FBB">>>>, <<"U+1F72", <<"U+1FC8">>>>, <<"U+1F73", <<"U+1FC9">>>>,
    <<"U+1F74", <<"U+1FCA">>>>, <<"U+1F75", <<"U+1FCB">>>>, <<"U+1F76", <<"U+1FDA">>>>,
    <<"U+1F77", <<"U+1FDB">>>>, <<"U+1F78", <<"U+1FF8">>>>, <<"U+1F79", <<"U+1FF9">>>>,
    <<"U+1F7A", <<"U+1FEA">>>>, <<"U+1F7B", <<"U+1FEB">>>>, <<"U+1F7C", <<"U+1FFA">>>>,
    <<"U+1F7D", <<"U+1FFB">>>>, <<"U+1F80", <<"U+1F08", "U+0399">>>>,
    <<"U+1F81", <<"U+1F09", "U+0399">>>>, <<"U+1F82", <<"U+1F0A", "U+0399">>>>,
    <<"U+1F83", <<"U+1F0B", "U+0399">>>>, <<"U+1F84", <<"U+1F0C", "U+0399">>>>,
    <<"U+1F85", <<"U+1F0D", "U+0399">>>>, <<"U+1F86", <<"U+1F0E", "U+0399">>>>,
    <<"U+1F87", <<"U+1F0F", "U+0399">>>>, <<"U+1F88", <<"U+1F08", "U+0399">>>>,
    <<"U+1F89", <<"U+1F09", "U+0399">>>>, <<"U+1F8A", <<"U+1F0A", "U+0399">>>>,
    <<"U+1F8B", <<"U+1F0B", "U+0399">>>>, <<"U+1F8C", <<"U+1F0C", "U+0399">>>>,
    <<"U+1F8D", <<"U+1F0D", "U+0399">>>>, <<"U+1F8E", <<"U+1F0E", "U+0399">>>>,
    <<"U+1F8F", <<"U+1F0F", "U+0399">>>>, <<"U+1F90", <<"U+1F28", "U+0399">>>>,
    <<"U+1F91", <<"U+1F29", "U+0399">>>>, <<"U+1F92", <<"U+1F2A", "U+0399">>>>,
    <<"U+1F93", <<"U+1F2B", "U+0399">>>>, <<"U+1F94", <<"U+1F2C", "U+0399">>>>,
    <<"U+1F95", <<"U+1F2D", "U+0399">>>>, <<"U+1F96", <<"U+1F2E", "U+0399">>>>,
    <<"U+1F97", <<"U+1F2F", "U+0399">>>>, <<"U+1F98", <<"U+1F28", "U+0399">>>>,
    <<"U+1F99", <<"U+1F29", "U+0399">>>>, <<"U+1F9A", <<"U+1F2A", "U+0399">>>>,
    <<"U+1F9B", <<"U+1F2B", "U+0399">>>>, <<"U+1F9C", <<"U+1F2C", "U+0399">>>>,
    <<"U+1F9D", <<"U+1F2D", "U+0399">>>>, <<"U+1F9E", <<"U+1F2E", "U+0399">>>>,
    <<"U+1F9F", <<"U+1F2F", "U+0399">>>>, <<"U+1FA0", <<"U+1F68", "U+0399">>>>,
    <<"U+1FA1", <<"U+1F69", "U+0399">>>>, <<"U+1FA2", <<"U+1F6A", "U+0399">>>>,
    <<"U+1FA3", <<"U+1F6B", "U+0399">>>>, <<"U+1FA4", <<"U+1F6C", "U+0399">>>>,
    <<"U+1FA5", <<"U+1F6D", "U+0399">>>>, <<"U+1FA6", <<"U+1F6E", "U+0399">>>>,
    <<"U+1FA7", <<"U+1F6F", "U+0399">>>>, <<"U+1FA8", <<"U+1F68", "U+0399">>>>,
    <<"U+1FA9", <<"U+1F69", "U+0399">>>>, <<"U+1FAA", <<"U+1F6A", "U+0399">>>>,
    <<"U+1FAB", <<"U+1F6B", "U+0399">>>>, <<"U+1FAC", <<"U+1F6C", "U+0399">>>>,
    <<"U+1FAD", <<"U+1F6D", "U+0399">>>>, <<"U+1FAE", <<"U+1F6E", "U+0399">>>>,
    <<"U+1FAF", <<"U+1F6F", "U+0399">>>>, <<"U+1FB0", <<"U+1FB8">>>>,
    <<"U+1FB1", <<"U+1FB9">>>>, <<"U+1FB2", <<"U+1FBA", "U+0399">>>>,
    <<"U+1FB3", <<"U+0391", "U+0399">>>>, <<"U+1FB4", <<"U+0386", "U+0399">>>>,
    <<"U+1FB6", <<"U+0391", "U+0342">>>>, <<"U+1FB7", <<"U+0391", "U+0342", "U+0399">>>>,
    <<"U+1FBC", <<"U+0391", "U+0399">>>>, <<"U+1FBE", <<"U+0399">>>>,
    <<"U+1FC2", <<"U+1FCA", "U+0399">>>>, <<"U+1FC3", <<"U+0397", "U+0399">>>>,
    <<"U+1FC4", <<"U+0389", "U+0399">>>>, <<"U+1FC6", <<"U+0397", "U+0342">>>>,
    <<"U+1FC7", <<"U+0397", "U+0342", "U+0399">>>>, <<"U+1FCC", <<"U+0397", "U+0399">>>>,
    <<"U+1FD0", <<"U+1FD8">>>>, <<"U+1FD1", <<"U+1FD9">>>>,
    <<"U+1FD2", <<"U+0399", "U+0308", "U+0300">>>>,
    <<"U+1FD3", <<"U+0399", "U+0308", "U+0301">>>>, <<"U+1FD6", <<"U+0399", "U+0342">>>>,
    <<"U+1FD7", <<"U+0399", "U+0308", "U+0342">>>>, <<"U+1FE0", <<"U+1FE8">>>>,
    <<"U+1FE1", <<"U+1FE9">>>>, <<"U+1FE2", <<"U+03A5", "U+0308", "U+0300">>>>,
    <<"U+1FE3", <<"U+03A5", "U+0308", "U+0301">>>>, <<"U+1FE4", <<"U+03A1", "U+0313">>>>,
    <<"U+1FE5", <<"U+1FEC">>>>, <<"U+1FE6", <<"U+03A5", "U+0342">>>>,
    <<"U+1FE7", <<"U+03A5", "U+0308", "U+0342">>>>, <<"U+1FF2", <<"U+1FFA", "U+0399">>>>,
    <<"U+1FF3", <<"U+03A9", "U+0399">>>>, <<"U+1FF4", <<"U+038F", "U+0399">>>>,
    <<"U+1FF6", <<"U+03A9", "U+0342">>>>, <<"U+1FF7", <<"U+03A9", "U+0342", "U+0399">>>>,
    <<"U+1FFC", <<"U+03A9", "U+0399">>>>, <<"U+214E", <<"U+2132">>>>,
    <<"U+2170", <<"U+2160">>>>, <<"U+2171", <<"U+2161">>>>, <<"U+2172", <<"U+2162">>>>,
    <<"U+2173", <<"U+2163">>>>, <<"U+2174", <<"U+2164">>>>, <<"U+2175", <<"U+2165">>>>,
    <<"U+2176", <<"U+2166">>>>, <<"U+2177", <<"U+2167">>>>, <<"U+2178", <<"U+2168">>>>,
    <<"U+2179", <<"U+2169">>>>, <<"U+217A", <<"U+216A">>>>, <<"U+217B", <<"U+216B">>>>,
    <<"U+217C", <<"U+216C">>>>, <<"U+217D", <<"U+216D">>>>, <<"U+217E", <<"U+216E">>>>,
    <<"U+217F", <<"U+216F">>>>, <<"U+2184", <<"U+2183">>>>, <<"U+24D0", <<"U+24B6">>>>,
    <<"U+24D1", <<"U+24B7">>>>, <<"U+24D2", <<"U+24B8">>>>, <<"U+24D3", <<"U+24B9">>>>,
    <<"U+24D4", <<"U+24BA">>>>, <<"U+24D5", <<"U+24BB">>>>, <<"U+24D6", <<"U+24BC">>>>,
    <<"U+24D7", <<"U+24BD">>>>, <<"U+24D8", <<"U+24BE">>>>, <<"U+24D9", <<"U+24BF">>>>,
    <<"U+24DA", <<"U+24C0">>>>, <<"U+24DB", <<"U+24C1">>>>, <<"U+24DC", <<"U+24C2">>>>,
    <<"U+24DD", <<"U+24C3">>>>, <<"U+24DE", <<"U+24C4">>>>, <<"U+24DF", <<"U+24C5">>>>,
    <<"U+24E0", <<"U+24C6">>>>, <<"U+24E1", <<"U+24C7">>>>, <<"U+24E2", <<"U+24C8">>>>,
    <<"U+24E3", <<"U+24C9">>>>, <<"U+24E4", <<"U+24CA">>>>, <<"U+24E5", <<"U+24CB">>>>,
    <<"U+24E6", <<"U+24CC">>>>, <<"U+24E7", <<"U+24CD">>>>, <<"U+24E8", <<"U+24CE">>>>,
    <<"U+24E9", <<"U+24CF">>>>, <<"U+2C30", <<"U+2C00">>>>, <<"U+2C31", <<"U+2C01">>>>,
    <<"U+2C32", <<"U+2C02">>>>, <<"U+2C33", <<"U+2C03">>>>, <<"U+2C34", <<"U+2C04">>>>,
    <<"U+2C35", <<"U+2C05">>>>, <<"U+2C36", <<"U+2C06">>>>, <<"U+2C37", <<"U+2C07">>>>,
    <<"U+2C38", <<"U+2C08">>>>, <<"U+2C39", <<"U+2C09">>>>, <<"U+2C3A", <<"U+2C0A">>>>,
    <<"U+2C3B", <<"U+2C0B">>>>, <<"U+2C3C", <<"U+2C0C">>>>, <<"U+2C3D", <<"U+2C0D">>>>,
    <<"U+2C3E", <<"U+2C0E">>>>, <<"U+2C3F", <<"U+2C0F">>>>, <<"U+2C40", <<"U+2C10">>>>,
    <<"U+2C41", <<"U+2C11">>>>, <<"U+2C42", <<"U+2C12">>>>, <<"U+2C43", <<"U+2C13">>>>,
    <<"U+2C44", <<"U+2C14">>>>, <<"U+2C45", <<"U+2C15">>>>, <<"U+2C46", <<"U+2C16">>>>,
    <<"U+2C47", <<"U+2C17">>>>, <<"U+2C48", <<"U+2C18">>>>, <<"U+2C49", <<"U+2C19">>>>,
    <<"U+2C4A", <<"U+2C1A">>>>, <<"U+2C4B", <<"U+2C1B">>>>, <<"U+2C4C", <<"U+2C1C">>>>,
    <<"U+2C4D", <<"U+2C1D">>>>, <<"U+2C4E", <<"U+2C1E">>>>, <<"U+2C4F", <<"U+2C1F">>>>,
    <<"U+2C50", <<"U+2C20">>>>, <<"U+2C51", <<"U+2C21">>>>, <<"U+2C52", <<"U+2C22">>>>,
    <<"U+2C53", <<"U+2C23">>>>, <<"U+2C54", <<"U+2C24">>>>, <<"U+2C55", <<"U+2C25">>>>,
    <<"U+2C56", <<"U+2C26">>>>, <<"U+2C57", <<"U+2C27">>>>, <<"U+2C58", <<"U+2C28">>>>,
    <<"U+2C59", <<"U+2C29">>>>, <<"U+2C5A", <<"U+2C2A">>>>, <<"U+2C5B", <<"U+2C2B">>>>,
    <<"U+2C5C", <<"U+2C2C">>>>, <<"U+2C5D", <<"U+2C2D">>>>, <<"U+2C5E", <<"U+2C2E">>>>,
    <<"U+2C5F", <<"U+2C2F">>>>, <<"U+2C61", <<"U+2C60">>>>, <<"U+2C65", <<"U+023A">>>>,
    <<"U+2C66", <<"U+023E">>>>, <<"U+2C68", <<"U+2C67">>>>, <<"U+2C6A", <<"U+2C69">>>>,
    <<"U+2C6C", <<"U+2C6B">>>>, <<"U+2C73", <<"U+2C72">>>>, <<"U+2C76", <<"U+2C75">>>>,
    <<"U+2C81", <<"U+2C80">>>>, <<"U+2C83", <<"U+2C82">>>>, <<"U+2C85", <<"U+2C84">>>>,
    <<"U+2C87", <<"U+2C86">>>>, <<"U+2C89", <<"U+2C88">>>>, <<"U+2C8B", <<"U+2C8A">>>>,
    <<"U+2C8D", <<"U+2C8C">>>>, <<"U+2C8F", <<"U+2C8E">>>>, <<"U+2C91", <<"U+2C90">>>>,
    <<"U+2C93", <<"U+2C92">>>>, <<"U+2C95", <<"U+2C94">>>>, <<"U+2C97", <<"U+2C96">>>>,
    <<"U+2C99", <<"U+2C98">>>>, <<"U+2C9B", <<"U+2C9A">>>>, <<"U+2C9D", <<"U+2C9C">>>>,
    <<"U+2C9F", <<"U+2C9E">>>>, <<"U+2CA1", <<"U+2CA0">>>>, <<"U+2CA3", <<"U+2CA2">>>>,
    <<"U+2CA5", <<"U+2CA4">>>>, <<"U+2CA7", <<"U+2CA6">>>>, <<"U+2CA9", <<"U+2CA8">>>>,
    <<"U+2CAB", <<"U+2CAA">>>>, <<"U+2CAD", <<"U+2CAC">>>>, <<"U+2CAF", <<"U+2CAE">>>>,
    <<"U+2CB1", <<"U+2CB0">>>>, <<"U+2CB3", <<"U+2CB2">>>>, <<"U+2CB5", <<"U+2CB4">>>>,
    <<"U+2CB7", <<"U+2CB6">>>>, <<"U+2CB9", <<"U+2CB8">>>>, <<"U+2CBB", <<"U+2CBA">>>>,
    <<"U+2CBD", <<"U+2CBC">>>>, <<"U+2CBF", <<"U+2CBE">>>>, <<"U+2CC1", <<"U+2CC0">>>>,
    <<"U+2CC3", <<"U+2CC2">>>>, <<"U+2CC5", <<"U+2CC4">>>>, <<"U+2CC7", <<"U+2CC6">>>>,
    <<"U+2CC9", <<"U+2CC8">>>>, <<"U+2CCB", <<"U+2CCA">>>>, <<"U+2CCD", <<"U+2CCC">>>>,
    <<"U+2CCF", <<"U+2CCE">>>>, <<"U+2CD1", <<"U+2CD0">>>>, <<"U+2CD3", <<"U+2CD2">>>>,
    <<"U+2CD5", <<"U+2CD4">>>>, <<"U+2CD7", <<"U+2CD6">>>>, <<"U+2CD9", <<"U+2CD8">>>>,
    <<"U+2CDB", <<"U+2CDA">>>>, <<"U+2CDD", <<"U+2CDC">>>>, <<"U+2CDF", <<"U+2CDE">>>>,
    <<"U+2CE1", <<"U+2CE0">>>>, <<"U+2CE3", <<"U+2CE2">>>>, <<"U+2CEC", <<"U+2CEB">>>>,
    <<"U+2CEE", <<"U+2CED">>>>, <<"U+2CF3", <<"U+2CF2">>>>, <<"U+2D00", <<"U+10A0">>>>,
    <<"U+2D01", <<"U+10A1">>>>, <<"U+2D02", <<"U+10A2">>>>, <<"U+2D03", <<"U+10A3">>>>,
    <<"U+2D04", <<"U+10A4">>>>, <<"U+2D05", <<"U+10A5">>>>, <<"U+2D06", <<"U+10A6">>>>,
    <<"U+2D07", <<"U+10A7">>>>, <<"U+2D08", <<"U+10A8">>>>, <<"U+2D09", <<"U+10A9">>>>,
    <<"U+2D0A", <<"U+10AA">>>>, <<"U+2D0B", <<"U+10AB">>>>, <<"U+2D0C", <<"U+10AC">>>>,
    <<"U+2D0D", <<"U+10AD">>>>, <<"U+2D0E", <<"U+10AE">>>>, <<"U+2D0F", <<"U+10AF">>>>,
    <<"U+2D10", <<"U+10B0">>>>, <<"U+2D11", <<"U+10B1">>>>, <<"U+2D12", <<"U+10B2">>>>,
    <<"U+2D13", <<"U+10B3">>>>, <<"U+2D14", <<"U+10B4">>>>, <<"U+2D15", <<"U+10B5">>>>,
    <<"U+2D16", <<"U+10B6">>>>, <<"U+2D17", <<"U+10B7">>>>, <<"U+2D18", <<"U+10B8">>>>,
    <<"U+2D19", <<"U+10B9">>>>, <<"U+2D1A", <<"U+10BA">>>>, <<"U+2D1B", <<"U+10BB">>>>,
    <<"U+2D1C", <<"U+10BC">>>>, <<"U+2D1D", <<"U+10BD">>>>, <<"U+2D1E", <<"U+10BE">>>>,
    <<"U+2D1F", <<"U+10BF">>>>, <<"U+2D20", <<"U+10C0">>>>, <<"U+2D21", <<"U+10C1">>>>,
    <<"U+2D22", <<"U+10C2">>>>, <<"U+2D23", <<"U+10C3">>>>, <<"U+2D24", <<"U+10C4">>>>,
    <<"U+2D25", <<"U+10C5">>>>, <<"U+2D27", <<"U+10C7">>>>, <<"U+2D2D", <<"U+10CD">>>>,
    <<"U+A641", <<"U+A640">>>>, <<"U+A643", <<"U+A642">>>>, <<"U+A645", <<"U+A644">>>>,
    <<"U+A647", <<"U+A646">>>>, <<"U+A649", <<"U+A648">>>>, <<"U+A64B", <<"U+A64A">>>>,
    <<"U+A64D", <<"U+A64C">>>>, <<"U+A64F", <<"U+A64E">>>>, <<"U+A651", <<"U+A650">>>>,
    <<"U+A653", <<"U+A652">>>>, <<"U+A655", <<"U+A654">>>>, <<"U+A657", <<"U+A656">>>>,
    <<"U+A659", <<"U+A658">>>>, <<"U+A65B", <<"U+A65A">>>>, <<"U+A65D", <<"U+A65C">>>>,
    <<"U+A65F", <<"U+A65E">>>>, <<"U+A661", <<"U+A660">>>>, <<"U+A663", <<"U+A662">>>>,
    <<"U+A665", <<"U+A664">>>>, <<"U+A667", <<"U+A666">>>>, <<"U+A669", <<"U+A668">>>>,
    <<"U+A66B", <<"U+A66A">>>>, <<"U+A66D", <<"U+A66C">>>>, <<"U+A681", <<"U+A680">>>>,
    <<"U+A683", <<"U+A682">>>>, <<"U+A685", <<"U+A684">>>>, <<"U+A687", <<"U+A686">>>>,
    <<"U+A689", <<"U+A688">>>>, <<"U+A68B", <<"U+A68A">>>>, <<"U+A68D", <<"U+A68C">>>>,
    <<"U+A68F", <<"U+A68E">>>>, <<"U+A691", <<"U+A690">>>>, <<"U+A693", <<"U+A692">>>>,
    <<"U+A695", <<"U+A694">>>>, <<"U+A697", <<"U+A696">>>>, <<"U+A699", <<"U+A698">>>>,
    <<"U+A69B", <<"U+A69A">>>>, <<"U+A723", <<"U+A722">>>>, <<"U+A725", <<"U+A724">>>>,
    <<"U+A727", <<"U+A726">>>>, <<"U+A729", <<"U+A728">>>>, <<"U+A72B", <<"U+A72A">>>>,
    <<"U+A72D", <<"U+A72C">>>>, <<"U+A72F", <<"U+A72E">>>>, <<"U+A733", <<"U+A732">>>>,
    <<"U+A735", <<"U+A734">>>>, <<"U+A737", <<"U+A736">>>>, <<"U+A739", <<"U+A738">>>>,
    <<"U+A73B", <<"U+A73A">>>>, <<"U+A73D", <<"U+A73C">>>>, <<"U+A73F", <<"U+A73E">>>>,
    <<"U+A741", <<"U+A740">>>>, <<"U+A743", <<"U+A742">>>>, <<"U+A745", <<"U+A744">>>>,
    <<"U+A747", <<"U+A746">>>>, <<"U+A749", <<"U+A748">>>>, <<"U+A74B", <<"U+A74A">>>>,
    <<"U+A74D", <<"U+A74C">>>>, <<"U+A74F", <<"U+A74E">>>>, <<"U+A751", <<"U+A750">>>>,
    <<"U+A753", <<"U+A752">>>>, <<"U+A755", <<"U+A754">>>>, <<"U+A757", <<"U+A756">>>>,
    <<"U+A759", <<"U+A758">>>>, <<"U+A75B", <<"U+A75A">>>>, <<"U+A75D", <<"U+A75C">>>>,
    <<"U+A75F", <<"U+A75E">>>>, <<"U+A761", <<"U+A760">>>>, <<"U+A763", <<"U+A762">>>>,
    <<"U+A765", <<"U+A764">>>>, <<"U+A767", <<"U+A766">>>>, <<"U+A769", <<"U+A768">>>>,
    <<"U+A76B", <<"U+A76A">>>>, <<"U+A76D", <<"U+A76C">>>>, <<"U+A76F", <<"U+A76E">>>>,
    <<"U+A77A", <<"U+A779">>>>, <<"U+A77C", <<"U+A77B">>>>, <<"U+A77F", <<"U+A77E">>>>,
    <<"U+A781", <<"U+A780">>>>, <<"U+A783", <<"U+A782">>>>, <<"U+A785", <<"U+A784">>>>,
    <<"U+A787", <<"U+A786">>>>, <<"U+A78C", <<"U+A78B">>>>, <<"U+A791", <<"U+A790">>>>,
    <<"U+A793", <<"U+A792">>>>, <<"U+A794", <<"U+A7C4">>>>, <<"U+A797", <<"U+A796">>>>,
    <<"U+A799", <<"U+A798">>>>, <<"U+A79B", <<"U+A79A">>>>, <<"U+A79D", <<"U+A79C">>>>,
    <<"U+A79F", <<"U+A79E">>>>, <<"U+A7A1", <<"U+A7A0">>>>, <<"U+A7A3", <<"U+A7A2">>>>,
    <<"U+A7A5", <<"U+A7A4">>>>, <<"U+A7A7", <<"U+A7A6">>>>, <<"U+A7A9", <<"U+A7A8">>>>,
    <<"U+A7B5", <<"U+A7B4">>>>, <<"U+A7B7", <<"U+A7B6">>>>, <<"U+A7B9", <<"U+A7B8">>>>,
    <<"U+A7BB", <<"U+A7BA">>>>, <<"U+A7BD", <<"U+A7BC">>>>, <<"U+A7BF", <<"U+A7BE">>>>,
    <<"U+A7C1", <<"U+A7C0">>>>, <<"U+A7C3", <<"U+A7C2">>>>, <<"U+A7C8", <<"U+A7C7">>>>,
    <<"U+A7CA", <<"U+A7C9">>>>, <<"U+A7D1", <<"U+A7D0">>>>, <<"U+A7D7", <<"U+A7D6">>>>,
    <<"U+A7D9", <<"U+A7D8">>>>, <<"U+A7F6", <<"U+A7F5">>>>, <<"U+AB53", <<"U+A7B3">>>>,
    <<"U+AB70", <<"U+13A0">>>>, <<"U+AB71", <<"U+13A1">>>>, <<"U+AB72", <<"U+13A2">>>>,
    <<"U+AB73", <<"U+13A3">>>>, <<"U+AB74", <<"U+13A4">>>>, <<"U+AB75", <<"U+13A5">>>>,
    <<"U+AB76", <<"U+13A6">>>>, <<"U+AB77", <<"U+13A7">>>>, <<"U+AB78", <<"U+13A8">>>>,
    <<"U+AB79", <<"U+13A9">>>>, <<"U+AB7A", <<"U+13AA">>>>, <<"U+AB7B", <<"U+13AB">>>>,
    <<"U+AB7C", <<"U+13AC">>>>, <<"U+AB7D", <<"U+13AD">>>>, <<"U+AB7E", <<"U+13AE">>>>,
    <<"U+AB7F", <<"U+13AF">>>>, <<"U+AB80", <<"U+13B0">>>>, <<"U+AB81", <<"U+13B1">>>>,
    <<"U+AB82", <<"U+13B2">>>>, <<"U+AB83", <<"U+13B3">>>>, <<"U+AB84", <<"U+13B4">>>>,
    <<"U+AB85", <<"U+13B5">>>>, <<"U+AB86", <<"U+13B6">>>>, <<"U+AB87", <<"U+13B7">>>>,
    <<"U+AB88", <<"U+13B8">>>>, <<"U+AB89", <<"U+13B9">>>>, <<"U+AB8A", <<"U+13BA">>>>,
    <<"U+AB8B", <<"U+13BB">>>>, <<"U+AB8C", <<"U+13BC">>>>, <<"U+AB8D", <<"U+13BD">>>>,
    <<"U+AB8E", <<"U+13BE">>>>, <<"U+AB8F", <<"U+13BF">>>>, <<"U+AB90", <<"U+13C0">>>>,
    <<"U+AB91", <<"U+13C1">>>>, <<"U+AB92", <<"U+13C2">>>>, <<"U+AB93", <<"U+13C3">>>>,
    <<"U+AB94", <<"U+13C4">>>>, <<"U+AB95", <<"U+13C5">>>>, <<"U+AB96", <<"U+13C6">>>>,
    <<"U+AB97", <<"U+13C7">>>>, <<"U+AB98", <<"U+13C8">>>>, <<"U+AB99", <<"U+13C9">>>>,
    <<"U+AB9A", <<"U+13CA">>>>, <<"U+AB9B", <<"U+13CB">>>>, <<"U+AB9C", <<"U+13CC">>>>,
    <<"U+AB9D", <<"U+13CD">>>>, <<"U+AB9E", <<"U+13CE">>>>, <<"U+AB9F", <<"U+13CF">>>>,
    <<"U+ABA0", <<"U+13D0">>>>, <<"U+ABA1", <<"U+13D1">>>>, <<"U+ABA2", <<"U+13D2">>>>,
    <<"U+ABA3", <<"U+13D3">>>>, <<"U+ABA4", <<"U+13D4">>>>, <<"U+ABA5", <<"U+13D5">>>>,
    <<"U+ABA6", <<"U+13D6">>>>, <<"U+ABA7", <<"U+13D7">>>>, <<"U+ABA8", <<"U+13D8">>>>,
    <<"U+ABA9", <<"U+13D9">>>>, <<"U+ABAA", <<"U+13DA">>>>, <<"U+ABAB", <<"U+13DB">>>>,
    <<"U+ABAC", <<"U+13DC">>>>, <<"U+ABAD", <<"U+13DD">>>>, <<"U+ABAE", <<"U+13DE">>>>,
    <<"U+ABAF", <<"U+13DF">>>>, <<"U+ABB0", <<"U+13E0">>>>, <<"U+ABB1", <<"U+13E1">>>>,
    <<"U+ABB2", <<"U+13E2">>>>, <<"U+ABB3", <<"U+13E3">>>>, <<"U+ABB4", <<"U+13E4">>>>,
    <<"U+ABB5", <<"U+13E5">>>>, <<"U+ABB6", <<"U+13E6">>>>, <<"U+ABB7", <<"U+13E7">>>>,
    <<"U+ABB8", <<"U+13E8">>>>, <<"U+ABB9", <<"U+13E9">>>>, <<"U+ABBA", <<"U+13EA">>>>,
    <<"U+ABBB", <<"U+13EB">>>>, <<"U+ABBC", <<"U+13EC">>>>, <<"U+ABBD", <<"U+13ED">>>>,
    <<"U+ABBE", <<"U+13EE">>>>, <<"U+ABBF", <<"U+13EF">>>>, <<"U+FB00", <<"F", "F">>>>,
    <<"U+FB01", <<"F", "I">>>>, <<"U+FB02", <<"F", "L">>>>, <<"U+FB03", <<"F", "F", "I">>>>,
    <<"U+FB04", <<"F", "F", "L">>>>, <<"U+FB05", <<"S", "T">>>>, <<"U+FB06", <<"S", "T">>>>,
    <<"U+FB13", <<"U+0544", "U+0546">>>>, <<"U+FB14", <<"U+0544", "U+0535">>>>,
    <<"U+FB15", <<"U+0544", "U+053B">>>>, <<"U+FB16", <<"U+054E", "U+0546">>>>,
    <<"U+FB17", <<"U+0544", "U+053D">>>>, <<"U+FF41", <<"U+FF21">>>>,
    <<"U+FF42", <<"U+FF22">>>>, <<"U+FF43", <<"U+FF23">>>>, <<"U+FF44", <<"U+FF24">>>>,
    <<"U+FF45", <<"U+FF25">>>>, <<"U+FF46", <<"U+FF26">>>>, <<"U+FF47", <<"U+FF27">>>>,
    <<"U+FF48", <<"U+FF28">>>>, <<"U+FF49", <<"U+FF29">>>>, <<"U+FF4A", <<"U+FF2A">>>>,
    <<"U+FF4B", <<"U+FF2B">>>>, <<"U+FF4C", <<"U+FF2C">>>>, <<"U+FF4D", <<"U+FF2D">>>>,
    <<"U+FF4E", <<"U+FF2E">>>>, <<"U+FF4F", <<"U+FF2F">>>>, <<"U+FF50", <<"U+FF30">>>>,
    <<"U+FF51", <<"U+FF31">>>>, <<"U+FF52", <<"U+FF32">>>>, <<"U+FF53", <<"U+FF33">>>>,
    <<"U+FF54", <<"U+FF34">>>>, <<"U+FF55", <<"U+FF35">>>>, <<"U+FF56", <<"U+FF36">>>>,
    <<"U+FF57", <<"U+FF37">>>>, <<"U+FF58", <<"U+FF38">>>>, <<"U+FF59", <<"U+FF39">>>>,
    <<"U+FF5A", <<"U+FF3A">>>>, <<"U+10428", <<"U+10400">>>>, <<"U+10429", <<"U+10401">>>>,
    <<"U+1042A", <<"U+10402">>>>, <<"U+1042B", <<"U+10403">>>>, <<"U+1042C", <<"U+10404">>>>,
    <<"U+1042D", <<"U+10405">>>>, <<"U+1042E", <<"U+10406">>>>, <<"U+1042F", <<"U+10407">>>>,
    <<"U+10430", <<"U+10408">>>>, <<"U+10431", <<"U+10409">>>>, <<"U+10432", <<"U+1040A">>>>,
    <<"U+10433", <<"U+1040B">>>>, <<"U+10434", <<"U+1040C">>>>, <<"U+10435", <<"U+1040D">>>>,
    <<"U+10436", <<"U+1040E">>>>, <<"U+10437", <<"U+1040F">>>>, <<"U+10438", <<"U+10410">>>>,
    <<"U+10439", <<"U+10411">>>>, <<"U+1043A", <<"U+10412">>>>, <<"U+1043B", <<"U+10413">>>>,
    <<"U+1043C", <<"U+10414">>>>, <<"U+1043D", <<"U+10415">>>>, <<"U+1043E", <<"U+10416">>>>,
    <<"U+1043F", <<"U+10417">>>>, <<"U+10440", <<"U+10418">>>>, <<"U+10441", <<"U+10419">>>>,
    <<"U+10442", <<"U+1041A">>>>, <<"U+10443", <<"U+1041B">>>>, <<"U+10444", <<"U+1041C">>>>,
    <<"U+10445", <<"U+1041D">>>>, <<"U+10446", <<"U+1041E">>>>, <<"U+10447", <<"U+1041F">>>>,
    <<"U+10448", <<"U+10420">>>>, <<"U+10449", <<"U+10421">>>>, <<"U+1044A", <<"U+10422">>>>,
    <<"U+1044B", <<"U+10423">>>>, <<"U+1044C", <<"U+10424">>>>, <<"U+1044D", <<"U+10425">>>>,
    <<"U+1044E", <<"U+10426">>>>, <<"U+1044F", <<"U+10427">>>>, <<"U+104D8", <<"U+104B0">>>>,
    <<"U+104D9", <<"U+104B1">>>>, <<"U+104DA", <<"U+104B2">>>>, <<"U+104DB", <<"U+104B3">>>>,
    <<"U+104DC", <<"U+104B4">>>>, <<"U+104DD", <<"U+104B5">>>>, <<"U+104DE", <<"U+104B6">>>>,
    <<"U+104DF", <<"U+104B7">>>>, <<"U+104E0", <<"U+104B8">>>>, <<"U+104E1", <<"U+104B9">>>>,
    <<"U+104E2", <<"U+104BA">>>>, <<"U+104E3", <<"U+104BB">>>>, <<"U+104E4", <<"U+104BC">>>>,
    <<"U+104E5", <<"U+104BD">>>>, <<"U+104E6", <<"U+104BE">>>>, <<"U+104E7", <<"U+104BF">>>>,
    <<"U+104E8", <<"U+104C0">>>>, <<"U+104E9", <<"U+104C1">>>>, <<"U+104EA", <<"U+104C2">>>>,
    <<"U+104EB", <<"U+104C3">>>>, <<"U+104EC", <<"U+104C4">>>>, <<"U+104ED", <<"U+104C5">>>>,
    <<"U+104EE", <<"U+104C6">>>>, <<"U+104EF", <<"U+104C7">>>>, <<"U+104F0", <<"U+104C8">>>>,
    <<"U+104F1", <<"U+104C9">>>>, <<"U+104F2", <<"U+104CA">>>>, <<"U+104F3", <<"U+104CB">>>>,
    <<"U+104F4", <<"U+104CC">>>>, <<"U+104F5", <<"U+104CD">>>>, <<"U+104F6", <<"U+104CE">>>>,
    <<"U+104F7", <<"U+104CF">>>>, <<"U+104F8", <<"U+104D0">>>>, <<"U+104F9", <<"U+104D1">>>>,
    <<"U+104FA", <<"U+104D2">>>>, <<"U+104FB", <<"U+104D3">>>>, <<"U+10597", <<"U+10570">>>>,
    <<"U+10598", <<"U+10571">>>>, <<"U+10599", <<"U+10572">>>>, <<"U+1059A", <<"U+10573">>>>,
    <<"U+1059B", <<"U+10574">>>>, <<"U+1059C", <<"U+10575">>>>, <<"U+1059D", <<"U+10576">>>>,
    <<"U+1059E", <<"U+10577">>>>, <<"U+1059F", <<"U+10578">>>>, <<"U+105A0", <<"U+10579">>>>,
    <<"U+105A1", <<"U+1057A">>>>, <<"U+105A3", <<"U+1057C">>>>, <<"U+105A4", <<"U+1057D">>>>,
    <<"U+105A5", <<"U+1057E">>>>, <<"U+105A6", <<"U+1057F">>>>, <<"U+105A7", <<"U+10580">>>>,
    <<"U+105A8", <<"U+10581">>>>, <<"U+105A9", <<"U+10582">>>>, <<"U+105AA", <<"U+10583">>>>,
    <<"U+105AB", <<"U+10584">>>>, <<"U+105AC", <<"U+10585">>>>, <<"U+105AD", <<"U+10586">>>>,
    <<"U+105AE", <<"U+10587">>>>, <<"U+105AF", <<"U+10588">>>>, <<"U+105B0", <<"U+10589">>>>,
    <<"U+105B1", <<"U+1058A">>>>, <<"U+105B3", <<"U+1058C">>>>, <<"U+105B4", <<"U+1058D">>>>,
    <<"U+105B5", <<"U+1058E">>>>, <<"U+105B6", <<"U+1058F">>>>, <<"U+105B7", <<"U+10590">>>>,
    <<"U+105B8", <<"U+10591">>>>, <<"U+105B9", <<"U+10592">>>>, <<"U+105BB", <<"U+10594">>>>,
    <<"U+105BC", <<"U+10595">>>>, <<"U+10CC0", <<"U+10C80">>>>, <<"U+10CC1", <<"U+10C81">>>>,
    <<"U+10CC2", <<"U+10C82">>>>, <<"U+10CC3", <<"U+10C83">>>>, <<"U+10CC4", <<"U+10C84">>>>,
    <<"U+10CC5", <<"U+10C85">>>>, <<"U+10CC6", <<"U+10C86">>>>, <<"U+10CC7", <<"U+10C87">>>>,
    <<"U+10CC8", <<"U+10C88">>>>, <<"U+10CC9", <<"U+10C89">>>>, <<"U+10CCA", <<"U+10C8A">>>>,
    <<"U+10CCB", <<"U+10C8B">>>>, <<"U+10CCC", <<"U+10C8C">>>>, <<"U+10CCD", <<"U+10C8D">>>>,
    <<"U+10CCE", <<"U+10C8E">>>>, <<"U+10CCF", <<"U+10C8F">>>>, <<"U+10CD0", <<"U+10C90">>>>,
    <<"U+10CD1", <<"U+10C91">>>>, <<"U+10CD2", <<"U+10C92">>>>, <<"U+10CD3", <<"U+10C93">>>>,
    <<"U+10CD4", <<"U+10C94">>>>, <<"U+10CD5", <<"U+10C95">>>>, <<"U+10CD6", <<"U+10C96">>>>,
    <<"U+10CD7", <<"U+10C97">>>>, <<"U+10CD8", <<"U+10C98">>>>, <<"U+10CD9", <<"U+10C99">>>>,
    <<"U+10CDA", <<"U+10C9A">>>>, <<"U+10CDB", <<"U+10C9B">>>>, <<"U+10CDC", <<"U+10C9C">>>>,
    <<"U+10CDD", <<"U+10C9D">>>>, <<"U+10CDE", <<"U+10C9E">>>>, <<"U+10CDF", <<"U+10C9F">>>>,
    <<"U+10CE0", <<"U+10CA0">>>>, <<"U+10CE1", <<"U+10CA1">>>>, <<"U+10CE2", <<"U+10CA2">>>>,
    <<"U+10CE3", <<"U+10CA3">>>>, <<"U+10CE4", <<"U+10CA4">>>>, <<"U+10CE5", <<"U+10CA5">>>>,
    <<"U+10CE6", <<"U+10CA6">>>>, <<"U+10CE7", <<"U+10CA7">>>>, <<"U+10CE8", <<"U+10CA8">>>>,
    <<"U+10CE9", <<"U+10CA9">>>>, <<"U+10CEA", <<"U+10CAA">>>>, <<"U+10CEB", <<"U+10CAB">>>>,
    <<"U+10CEC", <<"U+10CAC">>>>, <<"U+10CED", <<"U+10CAD">>>>, <<"U+10CEE", <<"U+10CAE">>>>,
    <<"U+10CEF", <<"U+10CAF">>>>, <<"U+10CF0", <<"U+10CB0">>>>, <<"U+10CF1", <<"U+10CB1">>>>,
    <<"U+10CF2", <<"U+10CB2">>>>, <<"U+118C0", <<"U+118A0">>>>, <<"U+118C1", <<"U+118A1">>>>,
    <<"U+118C2", <<"U+118A2">>>>, <<"U+118C3", <<"U+118A3">>>>, <<"U+118C4", <<"U+118A4">>>>,
    <<"U+118C5", <<"U+118A5">>>>, <<"U+118C6", <<"U+118A6">>>>, <<"U+118C7", <<"U+118A7">>>>,
    <<"U+118C8", <<"U+118A8">>>>, <<"U+118C9", <<"U+118A9">>>>, <<"U+118CA", <<"U+118AA">>>>,
    <<"U+118CB", <<"U+118AB">>>>, <<"U+118CC", <<"U+118AC">>>>, <<"U+118CD", <<"U+118AD">>>>,
    <<"U+118CE", <<"U+118AE">>>>, <<"U+118CF", <<"U+118AF">>>>, <<"U+118D0", <<"U+118B0">>>>,
    <<"U+118D1", <<"U+118B1">>>>, <<"U+118D2", <<"U+118B2">>>>, <<"U+118D3", <<"U+118B3">>>>,
    <<"U+118D4", <<"U+118B4">>>>, <<"U+118D5", <<"U+118B5">>>>, <<"U+118D6", <<"U+118B6">>>>,
    <<"U+118D7", <<"U+118B7">>>>, <<"U+118D8", <<"U+118B8">>>>, <<"U+118D9", <<"U+118B9">>>>,
    <<"U+118DA", <<"U+118BA">>>>, <<"U+118DB", <<"U+118BB">>>>, <<"U+118DC", <<"U+118BC">>>>,
    <<"U+118DD", <<"U+118BD">>>>, <<"U+118DE", <<"U+118BE">>>>, <<"U+118DF", <<"U+118BF">>>>,
    <<"U+16E60", <<"U+16E40">>>>, <<"U+16E61", <<"U+16E41">>>>, <<"U+16E62", <<"U+16E42">>>>,
    <<"U+16E63", <<"U+16E43">>>>, <<"U+16E64", <<"U+16E44">>>>, <<"U+16E65", <<"U+16E45">>>>,
    <<"U+16E66", <<"U+16E46">>>>, <<"U+16E67", <<"U+16E47">>>>, <<"U+16E68", <<"U+16E48">>>>,
    <<"U+16E69", <<"U+16E49">>>>, <<"U+16E6A", <<"U+16E4A">>>>, <<"U+16E6B", <<"U+16E4B">>>>,
    <<"U+16E6C", <<"U+16E4C">>>>, <<"U+16E6D", <<"U+16E4D">>>>, <<"U+16E6E", <<"U+16E4E">>>>,
    <<"U+16E6F", <<"U+16E4F">>>>, <<"U+16E70", <<"U+16E50">>>>, <<"U+16E71", <<"U+16E51">>>>,
    <<"U+16E72", <<"U+16E52">>>>, <<"U+16E73", <<"U+16E53">>>>, <<"U+16E74", <<"U+16E54">>>>,
    <<"U+16E75", <<"U+16E55">>>>, <<"U+16E76", <<"U+16E56">>>>, <<"U+16E77", <<"U+16E57">>>>,
    <<"U+16E78", <<"U+16E58">>>>, <<"U+16E79", <<"U+16E59">>>>, <<"U+16E7A", <<"U+16E5A">>>>,
    <<"U+16E7B", <<"U+16E5B">>>>, <<"U+16E7C", <<"U+16E5C">>>>, <<"U+16E7D", <<"U+16E5D">>>>,
    <<"U+16E7E", <<"U+16E5E">>>>, <<"U+16E7F", <<"U+16E5F">>>>, <<"U+1E922", <<"U+1E900">>>>,
    <<"U+1E923", <<"U+1E901">>>>, <<"U+1E924", <<"U+1E902">>>>, <<"U+1E925", <<"U+1E903">>>>,
    <<"U+1E926", <<"U+1E904">>>>, <<"U+1E927", <<"U+1E905">>>>, <<"U+1E928", <<"U+1E906">>>>,
    <<"U+1E929", <<"U+1E907">>>>, <<"U+1E92A", <<"U+1E908">>>>, <<"U+1E92B", <<"U+1E909">>>>,
    <<"U+1E92C", <<"U+1E90A">>>>, <<"U+1E92D", <<"U+1E90B">>>>, <<"U+1E92E", <<"U+1E90C">>>>,
    <<"U+1E92F", <<"U+1E90D">>>>, <<"U+1E930", <<"U+1E90E">>>>, <<"U+1E931", <<"U+1E90F">>>>,
    <<"U+1E932", <<"U+1E910">>>>, <<"U+1E933", <<"U+1E911">>>>, <<"U+1E934", <<"U+1E912">>>>,
    <<"U+1E935", <<"U+1E913">>>>, <<"U+1E936", <<"U+1E914">>>>, <<"U+1E937", <<"U+1E915">>>>,
    <<"U+1E938", <<"U+1E916">>>>, <<"U+1E939", <<"U+1E917">>>>, <<"U+1E93A", <<"U+1E918">>>>,
    <<"U+1E93B", <<"U+1E919">>>>, <<"U+1E93C", <<"U+1E91A">>>>, <<"U+1E93D", <<"U+1E91B">>>>,
    <<"U+1E93E", <<"U+1E91C">>>>, <<"U+1E93F", <<"U+1E91D">>>>, <<"U+1E940", <<"U+1E91E">>>>,
    <<"U+1E941", <<"U+1E91F">>>>, <<"U+1E942", <<"U+1E920">>>>, <<"U+1E943", <<"U+1E921">>>>
  }

Cased == { p[1] : p \in UpperTable }
UpperOf == [ch \in Cased |-> (CHOOSE p \in UpperTable : p[1] = ch)[2]]

\* All other characters (digits, punctuation, capitals, white space, letters
\* without case) stay.
UpperChar(ch) == IF ch \in Cased THEN UpperOf[ch] ELSE <<ch>>

RECURSIVE LStrip(_)
LStrip(s) == IF s # << >> /\ IsSpace(Head(s)) THEN LStrip(Tail(s)) ELSE s

RECURSIVE RStrip(_)
RStrip(s) ==
  IF s # << >> /\ IsSpace(s[Len(s)]) THEN RStrip(SubSeq(s, 1, Len(s) - 1)) ELSE s

Strip(s) == RStrip(LStrip(s))

RECURSIVE Upper(_)
Upper(s) == IF s = << >> THEN << >> ELSE UpperChar(Head(s)) \o Upper(Tail(s))

\* (raw or "").strip().upper()
normalize_symbol(raw) == Upper(Strip(IF raw = None \/ raw = << >> THEN << >> ELSE raw))

Symbols == { normalize_symbol(r) : r \in RawInputs } \ { << >> }

\* ------------------------------------------------------------------ tables
\* The DataFrame built from a series: which symbol was asked for and which
\* content the remote API served.
Table(sym, ver) == [sym |-> sym, ver |-> ver]
NoTable == [sym |-> << >>, ver |-> 0]
Tables == { Table(s, v) : s \in Symbols, v \in 1..MaxVer }

\* The value found under a series key of a response body: nothing, an empty
\* series, or rows.  Rows are in the format of TIME_SERIES_DAILY ("1. open" to
\* "5. volume") or in that of TIME_SERIES_DAILY_ADJUSTED, which has both
\* "4. close" and "5. adjusted close"; the provider decides which.  Rows carry
\* the five fields the script reads later on.  No table is built from rows of
\* the adjusted format, so their content is not told apart.
Formats == {"daily", "adjusted"}
Series ==
  [st : {"absent", "empty"}, ver : {0}, fmt : {"none"}]
    \cup [st : {"rows"}, ver : 1..MaxVer, fmt : {"daily"}]
    \cup [st : {"rows"}, ver : {1}, fmt : {"adjusted"}]
NoSeries == [st |-> "absent", ver |-> 0, fmt |-> "none"]

\* Lines 52-60 on a series: the rename of lines 52-55 maps "4. close" and
\* "5. adjusted close" both to "Close", so for rows of the adjusted format
\* df["Close"] is a frame of two columns and pd.to_numeric raises TypeError
\* (line 58); rows of the daily format give a table.
Parses(series) == series.fmt = "daily"

\* Python truthiness of `ts`: None and {} are falsy.
Falsy(ts) == ts.st # "rows"

\* What requests.get / raise_for_status / r.json() can give for one request:
\* an exception, or a body.  A body with "Error Message" carries nothing else;
\* any other body may carry "Note" and, under each series key, nothing, an
\* empty series or rows.
Failures == {"transport", "http"}
Failed == [fail : Failures, note : {FALSE}, err : {FALSE}, daily : {NoSeries}, adj : {NoSeries}]
ErrorBody == [fail |-> "none", note |-> FALSE, err |-> TRUE, daily |-> NoSeries, adj |-> NoSeries]
Bodies == [fail : {"none"}, note : BOOLEAN, err : {FALSE}, daily : Series, adj : Series]
\* TIME_SERIES_DAILY bodies never carry the "Time Series (Daily Adjusted)" key.
PrimaryResponses == { b \in Bodies : b.adj = NoSeries } \cup {ErrorBody} \cup Failed
\* TIME_SERIES_DAILY_ADJUSTED bodies: one of the two series keys, or both with
\* an empty or a different series under "Time Series (Daily)".
AdjustedResponses ==
  { b \in Bodies : \/ b.daily = NoSeries
                   \/ b.adj = NoSeries
                   \/ b.daily.st = "empty" /\ b.adj.st = "rows"
                   \/ b.daily.st = "rows" /\ b.adj.st = "rows" /\ b.daily.ver = 1
                                          /\ b.adj.ver = MaxVer /\ b.adj.fmt = "daily" }
    \cup {ErrorBody} \cup Failed

\* -------------------------------------------------------------------- cache
EmptyMap == [x \in {} |-> x]

\* Faulty variant of Key: the symbol is not part of the key.
KeyWithoutSymbol(sym, api_key) == <<<< >>, api_key>>

\* The arguments of fetch_daily are the cache key.
Key(sym, api_key) == <<sym, api_key>>

\* Faulty variants of CacheHit: one that never serves an entry, one that serves
\* an entry of any age.
NeverHit(c, k, t) == k \in DOMAIN c /\ t - c[k].at < 0
HitWhateverAge(c, k, t) == k \in DOMAIN c

\* st.cache_data(ttl=...): an entry is served while its age is below the TTL.
CacheHit(c, k, t) == k \in DOMAIN c /\ t - c[k].at < TTL

CacheStore(c, k, tbl, t) == (k :> [table |-> tbl, at |-> t]) @@ c

\* Faulty variant of CacheClear: the entries stay.
ClearNothing(c) == c

\* st.cache_data.clear()
CacheClear(c) == EmptyMap

\* Faulty variant of Record: a snapshot already there is kept.
RecordOnce(lo, sym, tbl) == lo @@ (sym :> tbl)

\* st.session_state.last_ok[symbol] = df
Record(lo, sym, tbl) == (sym :> tbl) @@ lo

\* ------------------------------------------------------------ rows of a table
\* A table as the rows pandas holds: one record per date, ascending (line 59).
\* Dates count days from 2024-01-01, a Monday, as day 1.  NaN is the missing
\* value pd.to_numeric(errors="coerce") leaves in a field (line 57).
NaN == 0 - 1
Cols == {"Open", "High", "Low", "Close", "Volume"}
Bar(d, o, h, l, c, v) ==
  [date |-> d, Open |-> o, High |-> h, Low |-> l, Close |-> c, Volume |-> v]

\* Faulty variant of WeekEnd: bins closed on the left, labelled on the right.
WeekEndClosedLeft(d) == 7 * ((d \div 7) + 1)

\* Rule "W": weeks that end on Sunday, closed and labelled on the right.
WeekEnd(d) == 7 * ((d + 6) \div 7)

\* Rule "M": calendar months, labelled with their last day (January to March 2024).
MonthEnds == {31, 60, 91}
MonthEnd(d) == CHOOSE m \in MonthEnds : d <= m /\ \A n \in MonthEnds : d <= n => m <= n

BucketEnd(rule, d) == IF rule = "W" THEN WeekEnd(d) ELSE MonthEnd(d)

RECURSIVE Ascending(_)
Ascending(S) ==
  IF S = {} THEN << >>
  ELSE LET m == CHOOSE x \in S : \A y \in S : x <= y IN <<m>> \o Ascending(S \ {m})

\* The bins of df.resample(rule): every bucket from that of the first row to
\* that of the last, populated or not.
Bins(t, rule) ==
  IF t = << >> THEN << >>
  ELSE Ascending({ BucketEnd(rule, d) : d \in t[1].date .. t[Len(t)].date })

InBucket(t, rule, b) == SelectSeq(t, LAMBDA r : BucketEnd(rule, r.date) = b)

\* The values of one column that are there, in row order.
Values(rows, col) ==
  LET there == SelectSeq(rows, LAMBDA r : r[col] # NaN) IN
  [i \in 1..Len(there) |-> there[i][col]]

RECURSIVE Sum(_)
Sum(xs) == IF xs = << >> THEN 0 ELSE Head(xs) + Sum(Tail(xs))

\* .first(), .last(), .max(), .min(): over the values that are there, NaN when
\* there is none.  .sum(): over the values that are there, 0 when there is none.
First(rows, col) ==
  LET xs == Values(rows, col) IN IF xs = << >> THEN NaN ELSE xs[1]
\* Faulty variant of Last: the first value that is there.
LastIsFirst(rows, col) ==
  LET xs == Values(rows, col) IN IF xs = << >> THEN NaN ELSE xs[1]
Last(rows, col) ==
  LET xs == Values(rows, col) IN IF xs = << >> THEN NaN ELSE xs[Len(xs)]
Max(rows, col) ==
  LET xs == Values(rows, col) IN
  IF xs = << >> THEN NaN
  ELSE CHOOSE x \in {xs[i] : i \in 1..Len(xs)} : \A i \in 1..Len(xs) : xs[i] <= x
Min(rows, col) ==
  LET xs == Values(rows, col) IN
  IF xs = << >> THEN NaN
  ELSE CHOOSE x \in {xs[i] : i \in 1..Len(xs)} : \A i \in 1..Len(xs) : x <= xs[i]
SumOf(rows, col) == Sum(Values(rows, col))

\* out.dropna(how="any")
dropna(t) == SelectSeq(t, LAMBDA r : \A col \in Cols : r[col] # NaN)

\* Lines 62-70.
resample_ohlc(df_, rule) ==
  LET bins == Bins(df_, rule)
      out == [i \in 1..Len(bins) |->
                LET rows == InBucket(df_, rule, bins[i]) IN
                Bar(bins[i], First(rows, "Open"), Max(rows, "High"), Min(rows, "Low"),
                    Last(rows, "Close"), SumOf(rows, "Volume"))]
  IN dropna(out)

\* ------------------------------------------------ timeframe, window, averages
\* The selectbox options of line 78, in order: daily, weekly, monthly.
Timeframes == {"daily", "weekly", "monthly"}
\* st.slider(..., 60, 250, 180): lowest, highest and default value.
PeriodMin == 60
PeriodMax == 250
PeriodDefault == 180
Periods == {PeriodMin, PeriodDefault, PeriodMax}
\* The windows of lines 117 and 118.
Windows == {20, 50}

\* Lines 108-113; df.copy() has the rows of df.
Timeframe(df_, tf) ==
  IF tf = "weekly" THEN resample_ohlc(df_, "W")
  ELSE IF tf = "monthly" THEN resample_ohlc(df_, "M")
  ELSE df_

\* dfp.tail(period)
tail(t, n) == IF Len(t) <= n THEN t ELSE SubSeq(t, Len(t) - n + 1, Len(t))

\* An average is kept as the sum of its window and the number of bars in it;
\* NoAvg is the NaN of an average.
NoAvg == [sum |-> 0, n |-> 0]
Avg(t, from, to) ==
  [sum |-> Sum([j \in 1..(to - from + 1) |-> t[from + j - 1].Close]), n |-> to - from + 1]

\* Faulty variant of rolling_mean: min_periods=1, the bars there are averaged.
rolling_partial(t, N) ==
  [i \in 1..Len(t) |->
     LET from == IF i < N THEN 1 ELSE i - N + 1 IN
     IF \E j \in from..i : t[j].Close = NaN THEN NoAvg ELSE Avg(t, from, i)]

\* dfp["Close"].rolling(N).mean(): min_periods is N, so a window that is not
\* full, or that holds a NaN, gives NaN.
rolling_mean(t, N) ==
  [i \in 1..Len(t) |->
     IF i < N \/ \E j \in (i - N + 1)..i : t[j].Close = NaN
     THEN NoAvg ELSE Avg(t, i - N + 1, i)]

\* Lines 116-118: the two columns are added to dfp.
annotate(t) ==
  LET s20 == rolling_mean(t, 20)
      s50 == rolling_mean(t, 50)
  IN [i \in 1..Len(t) |-> [bar |-> t[i], SMA20 |-> s20[i], SMA50 |-> s50[i]]]

plain(t) == [i \in 1..Len(t) |-> [bar |-> t[i]]]

\* Faulty variant of RenderTable: the averages are taken before the window is cut.
RenderTableSmaFirst(df_, tf, period, show_sma) ==
  IF show_sma THEN tail(annotate(Timeframe(df_, tf)), period)
  ELSE plain(tail(Timeframe(df_, tf), period))

\* Lines 107-118: the table that is charted and shown (dfp).
RenderTable(df_, tf, period, show_sma) ==
  LET dfp == tail(Timeframe(df_, tf), period) IN
  IF show_sma THEN annotate(dfp) ELSE plain(dfp)

\* -------------------------------------------------------------- daily tables
MaxRows == 62           \* rows of the longest daily table

\* Tables with few rows: two days of one week, a day of the next week and a
\* day two months later, each row complete or with one field missing.
SparseDays == {1, 5, 9, 62}
SampleRows(d) ==
  { Bar(d, 10, 12, 9, 11, 100), Bar(d, 20, 25, 18, 22, 50), Bar(d, NaN, 12, 9, 11, 100),
    Bar(d, 10, 12, 9, NaN, 100), Bar(d, 10, 12, 9, 11, NaN) }
SparseTables ==
  UNION { LET days == Ascending(D) IN
          { t \in [1..Len(days) -> UNION { SampleRows(d) : d \in D }] :
              \A i \in 1..Len(days) : t[i].date = days[i] }
          : D \in (SUBSET SparseDays) \ { {} } }

\* Tables of consecutive days: the close is 10 up to row k and 20 after it,
\* and missing in row hole.
LongLens == {19, 20, 25, 49, 50, PeriodMin, PeriodMin + 1, MaxRows}
LongTable(n, k, hole) ==
  [i \in 1..n |->
     LET c == IF i <= k THEN 10 ELSE 20 IN
     Bar(i, c, c + 1, c - 1, IF i = hole THEN NaN ELSE c, 100)]
LongTables == { LongTable(n, k, hole) : n \in LongLens, k \in {0, 30, MaxRows}, hole \in {0, 2} }

\* One week, Monday to Friday.
ExampleWeek == [i \in 1..5 |-> Bar(i, 9 + i, 11 + i, 8 + i, 10 + i, 100)]

DailyTables == SparseTables \cup LongTables \cup {ExampleWeek}

\* ------------------------------------------------------ DataFrames as objects
\* The DataFrames in memory are a map from object identities (1, 2, ...) to
\* frames; a name (df, dfp) or a slot of last_ok holds an identity.  A frame
\* has its columns and its rows, each row a record of the date and one field
\* per column.  The cache of st.cache_data holds the pickled value of a frame,
\* not an object.
Frame(t) == [columns |-> Cols, rows |-> t]
NoFrame == 0            \* a name bound to no object
NoFrames == [id \in {} |-> Frame(<< >>)]

\* The identity of an object created while the objects of h are alive.
Fresh(h) == CHOOSE id \in 1..(Cardinality(DOMAIN h) + 1) :
              id \notin DOMAIN h /\ \A j \in 1..(id - 1) : j \in DOMAIN h

\* Faulty variant of NewFrame: the result is built in the frame it is made of.
SameFrame(h, of) == of

\* resample_ohlc (pd.concat, dropna), DataFrame.copy and DataFrame.tail give a
\* DataFrame of their own, whatever frame they are made of.
NewFrame(h, of) == Fresh(h)

\* h with frame f as the object id.
Put(h, id, f) == (id :> f) @@ h

\* Lines 108-113 on the object r: the result is h.obj[h.at].  resample_ohlc
\* builds the five columns of line 69; df.copy() has every column of df.
timeframe(h, r, tf) ==
  LET id == NewFrame(h, r) IN
  [obj |-> Put(h, id, [columns |-> IF tf = "daily" THEN h[r].columns ELSE Cols,
                       rows |-> Timeframe(h[r].rows, tf)]),
   at |-> id]

\* dfp.tail(period): the last rows, every column.
tail_of(h, r, n) ==
  LET id == NewFrame(h, r) IN
  [obj |-> Put(h, id, [columns |-> h[r].columns, rows |-> tail(h[r].rows, n)]), at |-> id]

\* .copy()
copy(h, r) ==
  LET id == NewFrame(h, r) IN [obj |-> Put(h, id, h[r]), at |-> id]

\* obj[name] = values: the column is added to (or replaced in) the object r.
setitem(h, r, name, values) ==
  [h EXCEPT ![r] = [columns |-> @.columns \cup {name},
                    rows |-> [i \in 1..Len(@.rows) |-> (name :> values[i]) @@ @.rows[i]]]]

\* Lines 116-118 on the object r.
add_sma(h, r) ==
  LET h20 == setitem(h, r, "SMA20", rolling_mean(h[r].rows, 20))
  IN setitem(h20, r, "SMA50", rolling_mean(h20[r].rows, 50))

\* The objects of h that are reachable from the identities in ids.
Alive(h, ids) == [id \in DOMAIN h \cap ids |-> h[id]]

\* Lines 52-60 on the rows of a series in the daily format: the table of its
\* content.  The first content is a table one row longer than the smallest
\* window, every other content the table of one week.
ObjectTable(series) ==
  IF series.ver = 1 THEN LongTable(PeriodMin + 1, 30, 0) ELSE ExampleWeek
ObjectTables == { ObjectTable(series) : series \in { x \in Series : Parses(x) } }

VARIABLES
  now,          \* the clock, in seconds
  cache,        \* st.cache_data store of fetch_daily: key -> [table, at]
  has_last_ok,  \* "last_ok" in st.session_state
  last_ok,      \* st.session_state.last_ok: symbol -> table
  passes,       \* render passes started
  pc,           \* position of the running pass in the script
  symbol,       \* normalize_symbol(raw_symbol)
  clicked,      \* st.button(...) of this pass
  data,         \* fetch_daily's local data: what the last primary response showed
  data2,        \* fetch_daily's local data2: what the last adjusted response showed
  ts,           \* fetch_daily's local ts (rows, or nothing)
  df,           \* the table of this pass
  e,            \* the exception caught at line 99
  status_msg,   \* status_msg
  ui,           \* what the pass has put on the page
  reqs,         \* history: requests this fetch_daily has issued, per endpoint
  sleeps,       \* history: back-offs this fetch_daily has slept
  noted,        \* history: the endpoint's first response carried "Note"
  got,          \* history: the series of the endpoint's latest response
  hit,          \* history: fetch_daily returned from the cache in this pass
  invoked,      \* history: the body of fetch_daily was entered in this pass
  lkgRead,      \* history: the pass read last_ok (lines 100-101)
  pass0,        \* history: cache and last_ok when the pass started
  call0,        \* history: clock, cache and lastStore when fetch_daily was called
  lastStore,    \* history: key -> time the fetcher last succeeded since a clear
  lastGood,     \* history: symbol -> table fetch_daily last returned
  cpc,          \* table functions: "off", or what has been applied to cin
  cin,          \* table functions: the daily table they are applied to
  cset,         \* table functions: timeframe, period and show_sma applied
  cprev,        \* table functions: the result before the latest one
  cout,         \* table functions: the latest result
  opc,          \* objects: "off", or the position of the pass in the script
  opasses,      \* objects: render passes started
  frames,       \* objects: the DataFrames in memory, identity -> frame
  data_cache,   \* objects: st.cache_data store, key -> [table (a value), at]
  kept,         \* objects: st.session_state.last_ok, symbol -> identity
  names,        \* objects: the pass's symbol, df, dfp and status, fetch_daily's ts
  made,         \* objects, history: the identities lines 108-114 created
  fetched       \* objects, history: symbol -> frame fetch_daily last returned

persistent == <<now, cache, has_last_ok, last_ok, passes>>
fetching == <<data, data2, ts, reqs, sleeps, noted, got>>
locals == <<symbol, clicked, df, e, status_msg, ui>>
history == <<hit, invoked, lkgRead, pass0, call0, lastStore, lastGood>>
objects == <<opc, opasses, frames, data_cache, kept, names, made, fetched>>
calc == <<cpc, cin, cset, cprev, cout, objects>>
pass == <<persistent, pc, fetching, locals, history>>
vars == <<persistent, pc, fetching, locals, history, calc>>

NoStatus == [kind |-> "none", msg |-> "none"]
NoSet == [tf |-> "none", period |-> 0, show_sma |-> FALSE]
NoUi ==
  [hint |-> FALSE, error |-> "none", warning |-> "none", caption |-> NoStatus, table |-> NoTable]
NoPass == [cache |-> EmptyMap, last_ok |-> EmptyMap]
NoCall == [now |-> 0, cache |-> EmptyMap, lastStore |-> EmptyMap]
NoData == [fail |-> "unset", note |-> FALSE, err |-> FALSE, series |-> FALSE]
NoReqs == [DAILY |-> 0, ADJUSTED |-> 0]
NoNoted == [DAILY |-> FALSE, ADJUSTED |-> FALSE]
NoGot == [DAILY |-> NoSeries, ADJUSTED |-> NoSeries]
NoNames ==
  [symbol |-> << >>, df |-> NoFrame, dfp |-> NoFrame, status |-> "none", ts |-> NoSeries]

Started ==
  /\ now = 0
  /\ cache = EmptyMap
  /\ has_last_ok = FALSE
  /\ last_ok = EmptyMap
  /\ passes = 0
  /\ pc = "idle"
  /\ symbol = << >>
  /\ clicked = FALSE
  /\ data = NoData
  /\ data2 = NoData
  /\ ts = NoSeries
  /\ df = NoTable
  /\ e = "none"
  /\ status_msg = NoStatus
  /\ ui = NoUi
  /\ reqs = NoReqs
  /\ sleeps = 0
  /\ noted = NoNoted
  /\ got = NoGot
  /\ hit = FALSE
  /\ invoked = FALSE
  /\ lkgRead = FALSE
  /\ pass0 = NoPass
  /\ call0 = NoCall
  /\ lastStore = EmptyMap
  /\ lastGood = EmptyMap

\* No DataFrame is in memory, the cache and last_ok hold nothing.
NoObjects(at) ==
  /\ opc = at
  /\ opasses = 0
  /\ frames = NoFrames
  /\ data_cache = EmptyMap
  /\ kept = EmptyMap
  /\ names = NoNames
  /\ made = << >>
  /\ fetched = EmptyMap

Init ==
  /\ Started
  /\ cpc = "off"
  /\ cin = << >>
  /\ cset = NoSet
  /\ cprev = << >>
  /\ cout = << >>
  /\ NoObjects("off")

\* Time passes between two passes.
Advance ==
  /\ pc = "idle"
  /\ now + WaitUnit <= MaxTime
  /\ now' = now + WaitUnit
  /\ UNCHANGED <<cache, has_last_ok, last_ok, passes, pc, fetching, locals, history>>
  /\ UNCHANGED calc

\* Line 84: the caption on the free key and ".T" stocks is put in the sidebar
\* whatever the symbol is; normalize_symbol itself returns a string and raises
\* or shows nothing.
Hint(sym) == TRUE

\* Faulty variant of Stops: the pass goes on with any symbol.
NeverStops(sym) == FALSE

\* if not symbol: ... st.stop()
Stops(sym) == sym = << >>

\* Lines 73-92: the sidebar widgets, the clear-cache button, the creation of
\* last_ok and the empty-symbol guard.
Sidebar(raw, click) ==
  /\ pc = "idle"
  /\ passes < MaxPasses
  /\ passes' = passes + 1
  /\ symbol' = normalize_symbol(raw)
  /\ clicked' = click
  /\ cache' = IF click THEN CacheClear(cache) ELSE cache
  /\ has_last_ok' = TRUE
  /\ last_ok' = IF has_last_ok THEN last_ok ELSE EmptyMap
  /\ pc' = IF Stops(symbol') THEN "done" ELSE "fetch"
  /\ pass0' = [cache |-> cache, last_ok |-> last_ok]
  /\ lastStore' = IF click THEN EmptyMap ELSE lastStore
  /\ ui' = [ui EXCEPT !.hint = Hint(symbol')]
  /\ UNCHANGED <<now, fetching, df, e, status_msg, hit, invoked, lkgRead, call0, lastGood>>
  /\ UNCHANGED calc

\* Line 96 through the st.cache_data wrapper of line 24.
CachedCall ==
  /\ pc = "fetch"
  /\ call0' = [now |-> now, cache |-> cache, lastStore |-> lastStore]
  /\ LET k == Key(symbol, API_KEY) IN
       IF CacheHit(cache, k, now)
       THEN /\ df' = cache[k].table
            /\ hit' = TRUE
            /\ lastGood' = (symbol :> cache[k].table) @@ lastGood
            /\ pc' = "ok"
            /\ UNCHANGED invoked
       ELSE /\ pc' = "call1"
            /\ invoked' = TRUE
            /\ UNCHANGED <<df, hit, lastGood>>
  /\ UNCHANGED <<persistent, fetching, symbol, clicked, e, status_msg, ui, lkgRead,
                 pass0, lastStore>>
  /\ UNCHANGED calc

\* The series fetch_daily reads from a body: "Time Series (Daily)" for the
\* primary call, and for the adjusted call that key or, when it is missing or
\* empty, "Time Series (Daily Adjusted)".
SeriesOf(func, r) ==
  IF func = "DAILY" THEN r.daily
  ELSE IF ~Falsy(r.daily) THEN r.daily ELSE r.adj

\* What fetch_daily looks at in a response: whether _call raised, the "Note"
\* and "Error Message" keys and whether a series is there (the series itself
\* goes to ts).
Seen(func, r) ==
  [fail |-> r.fail, note |-> r.note, err |-> r.err, series |-> ~Falsy(SeriesOf(func, r))]

\* The value of ts after a response: its series, or nothing when that is
\* missing or empty (None and {} are not told apart from here on).
Yield(func, r) == IF Falsy(SeriesOf(func, r)) THEN NoSeries ELSE SeriesOf(func, r)

\* Faulty variant of RateLimited: the "Note" key is not looked at.
NeverLimited(d) == FALSE

\* "Note" in data
RateLimited(d) == d.note

\* Faulty variant of Raise: the exception is swallowed and the fetch goes on
\* with the adjusted endpoint.
RaiseSwallowed(kind) ==
  /\ pc' = "call2"
  /\ UNCHANGED <<ts, e>>

\* Lines 30-31: requests.get or raise_for_status raised; the exception leaves
\* fetch_daily and the cache wrapper.
Raise(kind) ==
  /\ e' = kind
  /\ pc' = "except"
  /\ UNCHANGED ts

\* Lines 40-41 on the primary body.
AfterPrimary(d) ==
  /\ ts' = Yield("DAILY", d)
  /\ pc' = IF Falsy(d.daily) THEN "call2" ELSE "parse"
  /\ UNCHANGED e

\* Faulty variant of AfterAdjusted: an empty series is returned, not raised.
AfterAdjustedPartial(d2) ==
  /\ ts' = Yield("ADJUSTED", d2)
  /\ pc' = "parse"
  /\ UNCHANGED e

\* Lines 47-50 on the adjusted body.
AfterAdjusted(d2) ==
  /\ ts' = Yield("ADJUSTED", d2)
  /\ IF Falsy(SeriesOf("ADJUSTED", d2))
     THEN e' = "nodata" /\ pc' = "except"
     ELSE pc' = "parse" /\ UNCHANGED e

\* Lines 35-36 (and 40-41 when the body has no "Note").
CallPrimary(r) ==
  /\ pc = "call1"
  /\ data' = Seen("DAILY", r)
  /\ reqs' = [reqs EXCEPT !.DAILY = @ + 1]
  /\ noted' = [noted EXCEPT !.DAILY = r.note]
  /\ got' = [got EXCEPT !.DAILY = Yield("DAILY", r)]
  /\ IF r.fail # "none" THEN Raise(r.fail)
     ELSE IF RateLimited(r) THEN pc' = "retry1" /\ UNCHANGED <<ts, e>>
     ELSE AfterPrimary(r)
  /\ UNCHANGED <<persistent, data2, sleeps, symbol, clicked, df, status_msg, ui, history>>
  /\ UNCHANGED calc

\* Lines 37-41.
RetryPrimary(r) ==
  /\ pc = "retry1"
  /\ now' = now + BackOff
  /\ sleeps' = sleeps + 1
  /\ data' = Seen("DAILY", r)
  /\ reqs' = [reqs EXCEPT !.DAILY = @ + 1]
  /\ got' = [got EXCEPT !.DAILY = Yield("DAILY", r)]
  /\ IF r.fail # "none" THEN Raise(r.fail) ELSE AfterPrimary(r)
  /\ UNCHANGED <<cache, has_last_ok, last_ok, passes, data2, noted, symbol, clicked, df,
                 status_msg, ui, history>>
  /\ UNCHANGED calc

\* Lines 43-44 (and 47-50 when the body has no "Note").  data stays bound to
\* the last primary body.
CallAdjusted(r) ==
  /\ pc = "call2"
  /\ data2' = Seen("ADJUSTED", r)
  /\ reqs' = [reqs EXCEPT !.ADJUSTED = @ + 1]
  /\ noted' = [noted EXCEPT !.ADJUSTED = r.note]
  /\ got' = [got EXCEPT !.ADJUSTED = Yield("ADJUSTED", r)]
  /\ IF r.fail # "none" THEN Raise(r.fail)
     ELSE IF RateLimited(r) THEN pc' = "retry2" /\ UNCHANGED <<ts, e>>
     ELSE AfterAdjusted(r)
  /\ UNCHANGED <<persistent, data, sleeps, symbol, clicked, df, status_msg, ui, history>>
  /\ UNCHANGED calc

\* Lines 45-50.
RetryAdjusted(r) ==
  /\ pc = "retry2"
  /\ now' = now + BackOff
  /\ sleeps' = sleeps + 1
  /\ data2' = Seen("ADJUSTED", r)
  /\ reqs' = [reqs EXCEPT !.ADJUSTED = @ + 1]
  /\ got' = [got EXCEPT !.ADJUSTED = Yield("ADJUSTED", r)]
  /\ IF r.fail # "none" THEN Raise(r.fail) ELSE AfterAdjusted(r)
  /\ UNCHANGED <<cache, has_last_ok, last_ok, passes, data, noted, symbol, clicked, df,
                 status_msg, ui, history>>
  /\ UNCHANGED calc

\* Lines 52-60, then the cache wrapper stores the returned table; when line 58
\* raises, the exception leaves fetch_daily and nothing is stored.
ParseAndStore ==
  /\ pc = "parse"
  /\ IF Parses(ts)
     THEN /\ df' = Table(symbol, ts.ver)
          /\ cache' = CacheStore(cache, Key(symbol, API_KEY), df', now)
          /\ lastStore' = (Key(symbol, API_KEY) :> now) @@ lastStore
          /\ lastGood' = (symbol :> df') @@ lastGood
          /\ pc' = "ok"
          /\ UNCHANGED e
     ELSE /\ e' = "parse"
          /\ pc' = "except"
          /\ UNCHANGED <<df, cache, lastStore, lastGood>>
  /\ UNCHANGED <<now, has_last_ok, last_ok, passes, fetching, symbol, clicked,
                 status_msg, ui, hit, invoked, lkgRead, pass0, call0>>
  /\ UNCHANGED calc

\* fetch_daily has returned or raised: its locals are gone.
Returned ==
  /\ data' = NoData
  /\ data2' = NoData
  /\ ts' = NoSeries
  /\ reqs' = NoReqs
  /\ sleeps' = 0
  /\ noted' = NoNoted
  /\ got' = NoGot

\* Lines 97-98.
RecordOk ==
  /\ pc = "ok"
  /\ last_ok' = Record(last_ok, symbol, df)
  /\ status_msg' = [kind |-> "fresh", msg |-> "none"]
  /\ pc' = "timeframe"
  /\ Returned
  /\ UNCHANGED <<now, cache, has_last_ok, passes, symbol, clicked, df, e, ui, history>>
  /\ UNCHANGED calc

\* Faulty variant of Fallback: the snapshot is never found.
NeverFallback(lo, sym) == FALSE

\* symbol in st.session_state.last_ok
Fallback(lo, sym) == sym \in DOMAIN lo

\* Faulty variant of Except: without a snapshot the pass goes on with no table.
ExceptSwallow ==
  /\ pc = "except"
  /\ lkgRead' = TRUE
  /\ df' = IF Fallback(last_ok, symbol) THEN last_ok[symbol] ELSE NoTable
  /\ status_msg' = [kind |-> "fallback", msg |-> e]
  /\ ui' = [ui EXCEPT !.warning = e]
  /\ pc' = "timeframe"
  /\ Returned
  /\ UNCHANGED <<persistent, symbol, clicked, e, hit, invoked, pass0, call0, lastStore,
                 lastGood>>
  /\ UNCHANGED calc

\* Lines 99-105.
Except ==
  /\ pc = "except"
  /\ lkgRead' = TRUE
  /\ IF Fallback(last_ok, symbol)
     THEN /\ df' = last_ok[symbol]
          /\ status_msg' = [kind |-> "fallback", msg |-> e]
          /\ ui' = [ui EXCEPT !.warning = e]
          /\ pc' = "timeframe"
     ELSE /\ ui' = [ui EXCEPT !.error = e]
          /\ pc' = "done"
          /\ UNCHANGED <<df, status_msg>>
  /\ Returned
  /\ UNCHANGED <<persistent, symbol, clicked, e, hit, invoked, pass0, call0, lastStore,
                 lastGood>>
  /\ UNCHANGED calc

\* Lines 107-156: the table of the pass and the status line go to the page.
\* A table is named here by its symbol and content, on which the sidebar
\* values of lines 77-80 have no bearing; what lines 107-118 do to the rows
\* is RenderTable, what they do to the objects is RenderObjects.
Render ==
  /\ pc = "timeframe"
  /\ ui' = [ui EXCEPT !.caption = status_msg, !.table = df]
  /\ pc' = "done"
  /\ UNCHANGED <<now, cache, has_last_ok, last_ok, passes, fetching, symbol, clicked, df, e,
                 status_msg, history>>
  /\ UNCHANGED calc

\* The script run is over (end of file or st.stop()); its locals are gone.
ScriptEnd ==
  /\ pc = "done"
  /\ pc' = "idle"
  /\ symbol' = << >>
  /\ clicked' = FALSE
  /\ df' = NoTable
  /\ e' = "none"
  /\ status_msg' = NoStatus
  /\ ui' = NoUi
  /\ hit' = FALSE
  /\ invoked' = FALSE
  /\ lkgRead' = FALSE
  /\ pass0' = NoPass
  /\ call0' = NoCall
  /\ UNCHANGED <<persistent, fetching, lastStore, lastGood>>
  /\ UNCHANGED calc

Next ==
  \/ Advance
  \/ \E raw \in RawInputs, click \in BOOLEAN : Sidebar(raw, click)
  \/ CachedCall
  \/ \E r \in PrimaryResponses : CallPrimary(r)
  \/ \E r \in PrimaryResponses : RetryPrimary(r)
  \/ \E r \in AdjustedResponses : CallAdjusted(r)
  \/ \E r \in AdjustedResponses : RetryAdjusted(r)
  \/ ParseAndStore
  \/ RecordOk
  \/ Except
  \/ Render
  \/ ScriptEnd

Spec == Init /\ [][Next]_vars

\* ----------------------------------------------------- the table functions
\* resample_ohlc and lines 107-118 applied to any daily table fetch_daily can
\* return, outside a pass.
InitTables ==
  /\ Started
  /\ cpc = "in"
  /\ cin \in DailyTables
  /\ cset = NoSet
  /\ cprev = << >>
  /\ cout = << >>
  /\ NoObjects("off")

Rule(tf) == IF tf = "weekly" THEN "W" ELSE "M"

\* resample_ohlc(df, rule)
Resample(tf) ==
  /\ cpc = "in"
  /\ cset' = [tf |-> tf, period |-> 0, show_sma |-> FALSE]
  /\ cout' = resample_ohlc(cin, Rule(tf))
  /\ cpc' = "resampled"
  /\ UNCHANGED <<cin, cprev, objects, pass>>

\* resample_ohlc applied to its own result, with the same rule.
ResampleAgain ==
  /\ cpc = "resampled"
  /\ cprev' = cout
  /\ cout' = resample_ohlc(cout, Rule(cset.tf))
  /\ cpc' = "resampled twice"
  /\ UNCHANGED <<cin, cset, objects, pass>>

\* Lines 116-118 applied to the daily table as it is.
Annotate ==
  /\ cpc = "in"
  /\ cout' = annotate(cin)
  /\ cpc' = "annotated"
  /\ UNCHANGED <<cin, cset, cprev, objects, pass>>

\* Lines 107-118.
View(tf, period, show_sma) ==
  /\ cpc = "in"
  /\ cset' = [tf |-> tf, period |-> period, show_sma |-> show_sma]
  /\ cout' = RenderTable(cin, tf, period, show_sma)
  /\ cpc' = "rendered"
  /\ UNCHANGED <<cin, cprev, objects, pass>>

NextTables ==
  \/ \E tf \in {"weekly", "monthly"} : Resample(tf)
  \/ ResampleAgain
  \/ Annotate
  \/ \E tf \in Timeframes, period \in Periods, show_sma \in BOOLEAN : View(tf, period, show_sma)

SpecTables == InitTables /\ [][NextTables]_vars

\* ------------------------------------------------- the objects behind a pass
\* Lines 73-118 on DataFrame objects: which object each name and each slot of
\* last_ok refers to, and what every statement does to the objects.  The
\* pass stands where the passes of Spec stand, and waits where they wait.
InitObjects ==
  /\ Started
  /\ cpc = "off"
  /\ cin = << >>
  /\ cset = NoSet
  /\ cprev = << >>
  /\ cout = << >>
  /\ NoObjects("idle")

tables == <<cpc, cin, cset, cprev, cout>>
clockless == <<cache, has_last_ok, last_ok, passes, pc, fetching, locals, history>>

\* Time passes between two passes.
Wait ==
  /\ opc = "idle"
  /\ now + WaitUnit <= MaxTime
  /\ now' = now + WaitUnit
  /\ UNCHANGED <<objects, tables, clockless>>

\* Lines 73-92.
SidebarObjects(raw, click) ==
  /\ opc = "idle"
  /\ opasses < MaxPasses
  /\ opasses' = opasses + 1
  /\ names' = [NoNames EXCEPT !.symbol = normalize_symbol(raw)]
  /\ data_cache' = IF click THEN CacheClear(data_cache) ELSE data_cache
  /\ opc' = IF Stops(names'.symbol) THEN "done" ELSE "fetch"
  /\ UNCHANGED <<frames, kept, made, fetched, tables, now, clockless>>

\* fetch_daily, or the cache wrapper in its place, returns the frame f as a
\* new object; line 97 has not run yet.
ReturnFrame(f) ==
  LET id == Fresh(frames) IN
  /\ frames' = Put(frames, id, f)
  /\ fetched' = (names.symbol :> f) @@ fetched
  /\ names' = [names EXCEPT !.df = id]
  /\ opc' = "ok"

\* Line 96 through the st.cache_data wrapper: a hit unpickles the cached
\* value into an object of its own, a miss enters fetch_daily.
CachedCallObjects ==
  /\ opc = "fetch"
  /\ LET k == Key(names.symbol, API_KEY) IN
       IF CacheHit(data_cache, k, now)
       THEN ReturnFrame(data_cache[k].table)
       ELSE opc' = "call1" /\ UNCHANGED <<frames, fetched, names>>
  /\ UNCHANGED <<opasses, data_cache, kept, made, tables, now, clockless>>

\* Lines 40-41 on the primary body.
AfterPrimaryObjects(d) ==
  /\ names' = [names EXCEPT !.ts = Yield("DAILY", d)]
  /\ opc' = IF Falsy(d.daily) THEN "call2" ELSE "parse"

\* Lines 47-50 on the adjusted body.
AfterAdjustedObjects(d2) ==
  /\ names' = [names EXCEPT !.ts = Yield("ADJUSTED", d2)]
  /\ opc' = IF Falsy(SeriesOf("ADJUSTED", d2)) THEN "except" ELSE "parse"

\* A request of fetch_daily and what follows it up to the next request, the
\* back-off or the end: lines 35-36 and 40-41, or 43-44 and 47-50.
CallObjects(func, r) ==
  /\ opc = (IF func = "DAILY" THEN "call1" ELSE "call2")
  /\ IF r.fail # "none" THEN opc' = "except" /\ UNCHANGED names
     ELSE IF RateLimited(r)
     THEN opc' = (IF func = "DAILY" THEN "retry1" ELSE "retry2") /\ UNCHANGED names
     ELSE IF func = "DAILY" THEN AfterPrimaryObjects(r) ELSE AfterAdjustedObjects(r)
  /\ UNCHANGED <<opasses, frames, data_cache, kept, made, fetched, tables, now, clockless>>

\* The back-off and the second request to an endpoint: lines 37-41 or 45-50.
RetryObjects(func, r) ==
  /\ opc = (IF func = "DAILY" THEN "retry1" ELSE "retry2")
  /\ now' = now + BackOff
  /\ IF r.fail # "none" THEN opc' = "except" /\ UNCHANGED names
     ELSE IF func = "DAILY" THEN AfterPrimaryObjects(r) ELSE AfterAdjustedObjects(r)
  /\ UNCHANGED <<opasses, frames, data_cache, kept, made, fetched, tables, clockless>>

\* Lines 52-60, then the cache wrapper pickles the returned table; when line
\* 58 raises nothing is built or stored.
ParseAndStoreObjects ==
  /\ opc = "parse"
  /\ IF Parses(names.ts)
     THEN /\ ReturnFrame(Frame(ObjectTable(names.ts)))
          /\ data_cache' = CacheStore(data_cache, Key(names.symbol, API_KEY),
                                      Frame(ObjectTable(names.ts)), now)
     ELSE /\ opc' = "except"
          /\ UNCHANGED <<frames, fetched, names, data_cache>>
  /\ UNCHANGED <<opasses, kept, made, tables, now, clockless>>

\* Lines 97-98: last_ok[symbol] refers to the object df refers to.
RecordObjects ==
  /\ opc = "ok"
  /\ kept' = Record(kept, names.symbol, names.df)
  /\ names' = [names EXCEPT !.status = "fresh", !.ts = NoSeries]
  /\ opc' = "timeframe"
  /\ UNCHANGED <<opasses, frames, data_cache, made, fetched, tables, now, clockless>>

\* Lines 99-105: df refers to the object last_ok[symbol] refers to.
ExceptObjects ==
  /\ opc = "except"
  /\ IF Fallback(kept, names.symbol)
     THEN /\ names' = [names EXCEPT !.df = kept[names.symbol], !.status = "fallback",
                                    !.ts = NoSeries]
          /\ opc' = "timeframe"
     ELSE /\ names' = [names EXCEPT !.status = "error", !.ts = NoSeries]
          /\ opc' = "done"
  /\ UNCHANGED <<opasses, frames, data_cache, kept, made, fetched, tables, now, clockless>>

\* The identities last_ok refers to.
Kept == { kept[s] : s \in DOMAIN kept }

\* Lines 107-118: a is what lines 108-113 give, b the tail and c its copy
\* (line 114), h the objects after lines 116-118; the objects no name refers
\* to any more are gone.
RenderObjects(tf, period, show_sma) ==
  /\ opc = "timeframe"
  /\ \E a \in {timeframe(frames, names.df, tf)} :
     \E b \in {tail_of(a.obj, a.at, period)} :
     \E c \in {copy(b.obj, b.at)} :
     \E h \in {IF show_sma THEN add_sma(c.obj, c.at) ELSE c.obj} :
       /\ frames' = Alive(h, Kept \cup {names.df, c.at})
       /\ names' = [names EXCEPT !.dfp = c.at]
       /\ made' = <<a.at, b.at, c.at>>
  /\ opc' = "done"
  /\ UNCHANGED <<opasses, data_cache, kept, fetched, tables, now, clockless>>

\* The script run is over: df and dfp are gone, last_ok keeps its objects.
EndObjects ==
  /\ opc = "done"
  /\ opc' = "idle"
  /\ names' = NoNames
  /\ made' = << >>
  /\ frames' = Alive(frames, Kept)
  /\ UNCHANGED <<opasses, data_cache, kept, fetched, tables, now, clockless>>

NextObjects ==
  \/ Wait
  \/ \E raw \in RawInputs, click \in BOOLEAN : SidebarObjects(raw, click)
  \/ CachedCallObjects
  \/ \E r \in PrimaryResponses : CallObjects("DAILY", r)
  \/ \E r \in AdjustedResponses : CallObjects("ADJUSTED", r)
  \/ \E r \in PrimaryResponses : RetryObjects("DAILY", r)
  \/ \E r \in AdjustedResponses : RetryObjects("ADJUSTED", r)
  \/ ParseAndStoreObjects
  \/ RecordObjects
  \/ ExceptObjects
  \/ \E tf \in Timeframes, period \in Periods, show_sma \in BOOLEAN :
       RenderObjects(tf, period, show_sma)
  \/ EndObjects

SpecObjects == InitObjects /\ [][NextObjects]_vars

\* ------------------------------------------------------------------ typing
FetchPcs == {"call1", "retry1", "call2", "retry2", "parse"}
Pcs == {"idle", "fetch", "ok", "except", "timeframe", "done"} \cup FetchPcs

TypeOK ==
  /\ now \in Nat
  /\ passes \in 0..MaxPasses
  /\ pc \in Pcs
  /\ symbol \in Symbols \cup { << >> }
  /\ df \in Tables \cup {NoTable}
  /\ ts \in Series
  /\ e \in Failures \cup {"nodata", "parse", "none"}
  /\ DOMAIN last_ok \subseteq Symbols
  /\ \A s \in DOMAIN last_ok : last_ok[s] \in Tables
  /\ \A k \in DOMAIN cache : cache[k].table \in Tables /\ cache[k].at \in 0..now

\* ---------------------------------------------------------------- claims
Endpoints == {"DAILY", "ADJUSTED"}
ThisKey == Key(symbol, API_KEY)

\* fetch_daily has been called in the running pass.
Called == pc \notin {"idle", "fetch"} /\ symbol # << >>

\* The fetcher succeeded for k less than TTL seconds before t, with no clear since.
FreshSince(ls, k, t) == k \in DOMAIN ls /\ t - ls[k] < TTL

\* C1: a call of fetch_daily whose key was fetched successfully less than 15
\* minutes earlier, with no clear in between, is served without entering the
\* fetcher (so two such calls enter it once), every other call enters it, and
\* a call in a pass that cleared the cache always enters it.
C1_OneFetchPerWindow ==
  /\ Called => (hit \/ invoked) /\ ~(hit /\ invoked)
  /\ hit => FreshSince(call0.lastStore, ThisKey, call0.now) /\ ~clicked
  /\ invoked => ~FreshSince(call0.lastStore, ThisKey, call0.now)
  /\ pc \in FetchPcs => invoked
  /\ (Called /\ clicked) => invoked

\* A second call some time after the fetch, inside the window, is a hit.
C1_Witness ==
  /\ pc = "ok" /\ hit
  /\ call0.now > call0.lastStore[ThisKey]

\* C2: in a pass whose fetch failed while last_ok held a snapshot for the
\* symbol, the pass goes on to render exactly that snapshot, with a status
\* marked as fallback that carries the failure's message, and shows no error.
C2_FallbackServed ==
  (e # "none" /\ pc \in {"timeframe", "done"} /\ symbol \in DOMAIN pass0.last_ok) =>
    /\ df = pass0.last_ok[symbol]
    /\ status_msg = [kind |-> "fallback", msg |-> e]
    /\ ui.warning = e
    /\ ui.error = "none"
    /\ pc = "done" => ui.table = pass0.last_ok[symbol] /\ ui.caption = status_msg

C2_Witness ==
  /\ pc = "done" /\ e = "nodata"
  /\ ui.table \in Tables /\ ui.caption.kind = "fallback"

\* C3 as stated: in a pass whose fetch failed with no snapshot for the symbol,
\* the error is shown, no table is produced and neither the cache nor last_ok
\* differs from what it was when the pass started.
C3_TerminalErrorNoChange ==
  (e # "none" /\ pc = "done" /\ symbol \notin DOMAIN pass0.last_ok) =>
    /\ ui.error = e
    /\ ui.table = NoTable /\ df = NoTable /\ status_msg = NoStatus
    /\ last_ok = pass0.last_ok
    /\ cache = pass0.cache

\* C3 amended: as above, except that the cache is emptied when the clear-cache
\* button was clicked in that pass; the failed fetch itself changes nothing.
C3_TerminalError ==
  (e # "none" /\ pc = "done" /\ symbol \notin DOMAIN pass0.last_ok) =>
    /\ ui.error = e
    /\ ui.table = NoTable /\ df = NoTable /\ status_msg = NoStatus
    /\ last_ok = pass0.last_ok
    /\ cache = IF clicked THEN EmptyMap ELSE pass0.cache

\* A failed fetch without snapshot, in a pass whose click emptied a cache
\* that held an entry.
C3_Witness ==
  /\ pc = "done" /\ e # "none" /\ ui.error = e
  /\ clicked /\ pass0.cache # EmptyMap

\* The failure fetch_daily ends with, from what its requests showed.
FailureSeen ==
  IF data.fail \in Failures THEN data.fail
  ELSE IF data2.fail \in Failures THEN data2.fail
  ELSE IF /\ reqs["ADJUSTED"] >= 1
          /\ data2.fail = "none"
          /\ ~noted["ADJUSTED"] \/ reqs["ADJUSTED"] = 2
          /\ got["DAILY"] = NoSeries /\ got["ADJUSTED"] = NoSeries
       THEN "nodata"
  ELSE "none"

\* C4: when a request fails or neither endpoint gives a series, fetch_daily
\* raises that failure to the caller, the cache is as it was when the call
\* was made, and it holds no servable entry for the key (so the next call
\* enters the fetcher again).
C4_FailureNotCached ==
  /\ FailureSeen # "none" => pc = "except" /\ e = FailureSeen
  /\ e # "none" =>
       /\ invoked
       /\ cache = call0.cache
       /\ ThisKey \in DOMAIN cache => now - cache[ThisKey].at >= TTL

\* A failed refetch of an expired entry: the old entry is not refreshed.
C4_Witness ==
  /\ pc = "except" /\ e = "transport"
  /\ ThisKey \in DOMAIN cache

\* C5: right after the sidebar of a pass whose button was clicked the cache is
\* empty and last_ok is as before; and a pass whose fetch fails for a symbol
\* fetched successfully earlier renders the table of that earlier fetch as
\* fallback, also when the cache was cleared in between.
C5_ClearKeepsLastGood ==
  /\ (clicked /\ ~hit /\ ~invoked) => cache = EmptyMap /\ last_ok = pass0.last_ok
  /\ (pc = "done" /\ e # "none" /\ symbol \in DOMAIN lastGood) =>
       ui.table = lastGood[symbol] /\ ui.caption.kind = "fallback"

\* A click that emptied a cache holding the symbol, then a failed refetch.
C5_Witness ==
  /\ pc = "done" /\ clicked /\ e # "none"
  /\ Key(symbol, API_KEY) \in DOMAIN pass0.cache
  /\ ui.table \in Tables

\* C6: outside the moment between fetch_daily's return and line 97, last_ok
\* is exactly the map symbol -> table of the latest successful fetch_daily
\* (cache hits included); at that moment line 97 is about to make it so; a
\* pass whose fetch failed leaves last_ok as it found it; last_ok is read
\* only after a failure; no snapshot disappears.
C6_LastGoodIsLatestSuccess ==
  /\ pc # "ok" => last_ok = lastGood
  /\ pc = "ok" =>
       /\ symbol \in DOMAIN lastGood /\ lastGood[symbol] = df
       /\ \A s \in Symbols \ {symbol} :
            /\ s \in DOMAIN lastGood <=> s \in DOMAIN last_ok
            /\ s \in DOMAIN lastGood => lastGood[s] = last_ok[s]
  /\ e # "none" => last_ok = pass0.last_ok
  /\ lkgRead => e # "none"
  /\ DOMAIN pass0.last_ok \subseteq DOMAIN last_ok

\* A later success has overwritten the snapshot with a different table.
C6_Witness ==
  /\ pc = "timeframe" /\ e = "none"
  /\ symbol \in DOMAIN pass0.last_ok
  /\ last_ok[symbol] # pass0.last_ok[symbol]

RetryPc(f) == IF f = "DAILY" THEN "retry1" ELSE "retry2"

FetchStep ==
  \/ \E r \in PrimaryResponses : CallPrimary(r) \/ RetryPrimary(r)
  \/ \E r \in AdjustedResponses : CallAdjusted(r) \/ RetryAdjusted(r)
  \/ ParseAndStore

\* C7: per endpoint at most two requests are issued, the second one exactly
\* when the first response carried "Note"; each second request comes with one
\* 12 s back-off and nothing else moves the clock during a fetch; so a fetch
\* issues at most 4 requests and sleeps at most twice, and it always has a
\* next step until it returns or raises.
C7_RetryOnce ==
  /\ \A f \in Endpoints :
       /\ reqs[f] <= 2
       /\ reqs[f] = 2 => noted[f]
       /\ noted[f] => reqs[f] = 2 \/ pc = RetryPc(f)
       /\ pc = RetryPc(f) => reqs[f] = 1 /\ noted[f]
  /\ sleeps = Cardinality({f \in Endpoints : reqs[f] = 2})
  /\ reqs["DAILY"] + reqs["ADJUSTED"] <= 4 /\ sleeps <= 2
  /\ pc \in FetchPcs \cup {"ok", "except"} => now = call0.now + BackOff * sleeps
  /\ pc \in FetchPcs => ENABLED FetchStep

\* Both endpoints rate-limited twice: 4 requests, 2 back-offs, then the end.
C7_Witness ==
  /\ pc = "except"
  /\ reqs["DAILY"] = 2 /\ reqs["ADJUSTED"] = 2 /\ sleeps = 2
  /\ data2.note

\* C8: once a response body carries the error indicator the fetch has failed
\* with InvalidSymbol: it is at no position from which a further request or
\* back-off follows.
C8_InvalidSymbolFailsFast ==
  (data.err \/ data2.err) => pc = "except" /\ e = "invalid"

\* The series the fetch has from the first endpoint that gave one.
FirstYield == IF got["DAILY"] # NoSeries THEN got["DAILY"] ELSE got["ADJUSTED"]

\* C9: the adjusted endpoint is asked only when the primary gave no series; a
\* fetch fails, and then with DataUnavailable, exactly when neither endpoint
\* gave a series; a fetch to which an endpoint gave a series returns the table
\* of the first endpoint that gave one.
C9_AdjustedOnlyWhenPrimaryEmpty ==
  /\ (pc \in {"call2", "retry2"} \/ reqs["ADJUSTED"] > 0) => got["DAILY"] = NoSeries
  /\ pc = "except" =>
       /\ e = "nodata" <=> got["DAILY"] = NoSeries /\ got["ADJUSTED"] = NoSeries
       /\ FirstYield = NoSeries
  /\ (pc = "parse" \/ (pc = "ok" /\ invoked)) =>
       /\ FirstYield # NoSeries /\ ts = FirstYield
       /\ pc = "ok" => df = Table(symbol, FirstYield.ver)

\* C10: a call that finds an entry older than the TTL enters the fetcher; a
\* hit never returns an entry older than the TTL; and when the fetcher
\* succeeds the entry of the key is the new table, stamped with the time of
\* the store.
C10_ExpiredRefetched ==
  /\ (Called /\ ThisKey \in DOMAIN call0.cache
             /\ call0.now - call0.cache[ThisKey].at > TTL) => invoked /\ ~hit
  /\ hit => /\ ThisKey \in DOMAIN call0.cache
            /\ call0.now - call0.cache[ThisKey].at <= TTL
            /\ df = call0.cache[ThisKey].table
  /\ (pc = "ok" /\ invoked) =>
       /\ ThisKey \in DOMAIN cache
       /\ cache[ThisKey] = [table |-> df, at |-> now]

\* An entry older than the TTL has been replaced by a different table with a
\* new stamp.
C10_Witness ==
  /\ pc = "ok" /\ invoked
  /\ ThisKey \in DOMAIN call0.cache
  /\ call0.now - call0.cache[ThisKey].at > TTL
  /\ cache[ThisKey].at = now
  /\ cache[ThisKey].table # call0.cache[ThisKey].table

\* ------------------------------------------------------------------ C11
\* The days of the calendar week or month that ends on day d.
CalendarBucket(d) ==
  IF cset.tf = "weekly" THEN (d - 6)..d
  ELSE { x \in 1..d : \A m \in MonthEnds : ~(x <= m /\ m < d) }

\* The rows of the daily table that fall into the bucket of an output bar.
RowsOf(b) == SelectSeq(cin, LAMBDA r : r.date \in CalendarBucket(b.date))

\* Output bars are in ascending date order, each dated with the Sunday or the
\* last day of the month that ends its bucket, and each has rows of the daily
\* table in its bucket.
Partitioned ==
  /\ \A i, j \in 1..Len(cout) : i < j => cout[i].date < cout[j].date
  /\ \A i \in 1..Len(cout) :
       IF cset.tf = "weekly" THEN cout[i].date % 7 = 0 ELSE cout[i].date \in MonthEnds
  /\ \A i \in 1..Len(cout) : RowsOf(cout[i]) # << >>

HighLowVolume(b) ==
  LET R == RowsOf(b) IN
  /\ \E i \in 1..Len(R) : R[i].High = b.High
  /\ \A i \in 1..Len(R) : R[i].High <= b.High
  /\ \E i \in 1..Len(R) : R[i].Low = b.Low
  /\ \A i \in 1..Len(R) : R[i].Low # NaN => b.Low <= R[i].Low
  /\ b.Volume = Sum([i \in 1..Len(R) |-> IF R[i].Volume = NaN THEN 0 ELSE R[i].Volume])

ExampleBar ==
  cin = ExampleWeek /\ cset.tf = "weekly" => cout = <<Bar(7, 10, 16, 9, 15, 500)>>

\* C11 as stated: every bar of resample(d, weekly or monthly) has the open of
\* the first row of its bucket, the highest high, the lowest low, the close of
\* the last row of its bucket and the sum of the volumes.
C11_FirstRowLastRow ==
  cpc = "resampled" =>
    /\ Partitioned
    /\ ExampleBar
    /\ \A k \in 1..Len(cout) :
         LET b == cout[k]  R == RowsOf(b) IN
         /\ b.Open = R[1].Open
         /\ b.Close = R[Len(R)].Close
         /\ HighLowVolume(b)

\* C11: every bar of resample(d, weekly or monthly) has the first open that is
\* not missing in its bucket, the highest high, the lowest low, the last close
\* that is not missing and the sum of the volumes that are not missing; the
\* buckets do not overlap; the example week gives 10, 16, 9, 15, 500.
C11_ResampleAggregates ==
  cpc = "resampled" =>
    /\ Partitioned
    /\ ExampleBar
    /\ \A k \in 1..Len(cout) :
         LET b == cout[k]  R == RowsOf(b) IN
         /\ \E i \in 1..Len(R) : /\ R[i].Open # NaN /\ b.Open = R[i].Open
                                 /\ \A j \in 1..(i - 1) : R[j].Open = NaN
         /\ \E i \in 1..Len(R) : /\ R[i].Close # NaN /\ b.Close = R[i].Close
                                 /\ \A j \in (i + 1)..Len(R) : R[j].Close = NaN
         /\ HighLowVolume(b)

\* A bucket of two rows whose first open is missing has given a bar.
C11_Witness ==
  /\ cpc = "resampled"
  /\ \E k \in 1..Len(cout) :
       LET R == RowsOf(cout[k]) IN Len(R) = 2 /\ R[1].Open = NaN /\ cout[k].Open = 20

\* ------------------------------------------------------------------ C12
\* C12 as stated: no bar of resample(d, weekly or monthly) stands for a bucket
\* in which one of the five columns has no value at all, be it a bucket with no
\* rows or one whose volumes are all missing.
C12_IncompleteBucketsDropped ==
  cpc = "resampled" =>
    \A k \in 1..Len(cout) : \A col \in Cols :
      \E i \in 1..Len(RowsOf(cout[k])) : RowsOf(cout[k])[i][col] # NaN

\* ------------------------------------------------------------------ C13
\* C13: resampling the result of resample(d, weekly) to weekly again gives the
\* same bars, with the same dates and the same five values; likewise monthly.
C13_ResampleIdempotent ==
  cpc = "resampled twice" => cout = cprev

\* A daily table of which several rows went into one bar and that gave bars
\* on both sides of empty buckets has been resampled twice.
C13_Witness ==
  /\ cpc = "resampled twice"
  /\ Len(cprev) >= 2
  /\ Len(cin) > Len(cprev)
  /\ Len(Bins(cin, Rule(cset.tf))) > Len(cprev)

\* ------------------------------------------------------------------ C14
\* The table the two average columns were added to, and the column of window N.
Annotated == cpc = "annotated" \/ (cpc = "rendered" /\ cset.show_sma)
AvgOf(row, N) == IF N = 20 THEN row.SMA20 ELSE row.SMA50

RECURSIVE CloseSum(_, _, _)
CloseSum(t, from, to) ==
  IF from > to THEN 0 ELSE t[to].bar.Close + CloseSum(t, from, to - 1)

\* 25 closes of 10.
Constant25 == LongTable(25, MaxRows, 0)

\* C14: in every annotated table and for N in {20, 50}, the N-bar average of
\* row i is missing when i < N, and otherwise it is the sum of the closes of
\* rows i-N+1..i divided by N (missing when one of these closes is missing);
\* no average is over fewer than N bars; 25 closes of 10 give SMA20 missing in
\* rows 1-19 and 10 in rows 20-25, and SMA50 missing in all rows.
C14_TrailingAverage ==
  Annotated =>
    /\ \A N \in Windows : \A i \in 1..Len(cout) :
         LET avg == AvgOf(cout[i], N) IN
         /\ avg # NoAvg => avg.n = N
         /\ i < N => avg = NoAvg
         /\ i >= N =>
              IF \E j \in (i - N + 1)..i : cout[j].bar.Close = NaN
              THEN avg = NoAvg
              ELSE avg = [sum |-> CloseSum(cout, i - N + 1, i), n |-> N]
    /\ cpc = "annotated" /\ cin = Constant25 =>
         /\ Len(cout) = 25
         /\ \A i \in 1..19 : cout[i].SMA20 = NoAvg
         /\ \A i \in 20..25 : cout[i].SMA20.sum = 10 * cout[i].SMA20.n /\ cout[i].SMA20.n = 20
         /\ \A i \in 1..25 : cout[i].SMA50 = NoAvg

\* A table of 52 rows or more has been annotated: its closes change from 10 to
\* 20 after row 30 and that of row 2 is missing, so the averages start at rows
\* 22 and 52.
C14_Witness ==
  /\ cpc = "annotated"
  /\ Len(cout) >= 52
  /\ cout[21].SMA20 = NoAvg /\ cout[22].SMA20 = [sum |-> 20 * 10, n |-> 20]
  /\ cout[51].SMA50 = NoAvg /\ cout[52].SMA50 = [sum |-> 28 * 10 + 22 * 20, n |-> 50]

\* ------------------------------------------------------------------ C15
\* The pass is under way with an empty symbol.
EmptyPass == pc # "idle" /\ symbol = << >>

NoFetchAttempted ==
  /\ pc = "done"
  /\ ~invoked /\ ~hit /\ ~lkgRead
  /\ call0 = NoCall
  /\ reqs = NoReqs /\ sleeps = 0
  /\ data = NoData /\ data2 = NoData
  /\ df = NoTable /\ ui = [NoUi EXCEPT !.hint = TRUE]

\* C15 as stated: a pass whose normalized symbol is empty stops before the
\* cached fetch, issues no request, and leaves the cache and the
\* Last-Known-Good store as they were when it started.
C15_EmptySymbolNoChange ==
  EmptyPass => NoFetchAttempted /\ cache = pass0.cache /\ last_ok = pass0.last_ok

\* C15: a pass whose normalized symbol is empty stops before the cached fetch
\* and issues no request; it leaves the Last-Known-Good store as it was, and
\* the cache as it was unless the clear button was clicked in it, in which case
\* the cache is empty; no cache entry and no snapshot is ever kept under the
\* empty symbol.
C15_EmptySymbolNoFetch ==
  /\ EmptyPass =>
       /\ NoFetchAttempted
       /\ last_ok = pass0.last_ok
       /\ cache = IF clicked THEN EmptyMap ELSE pass0.cache
  /\ \A k \in DOMAIN cache : k[1] # << >>
  /\ << >> \notin DOMAIN last_ok

\* A pass with an empty symbol has ended, with or without a click, in a session
\* that had fetched before.
C15_Witness ==
  /\ EmptyPass
  /\ pass0.cache # EmptyMap
  /\ pass0.last_ok # EmptyMap
  /\ cache \in {EmptyMap, pass0.cache}

\* ------------------------------------------------------------------ C16
\* The symbol ends with the suffix of the Tokyo exchange.
ForeignSuffix(sym) == Len(sym) >= 2 /\ SubSeq(sym, Len(sym) - 1, Len(sym)) = <<".", "T">>

\* C16 as stated: in a pass an advisory is shown exactly when the normalized
\* symbol ends with a foreign-market suffix ("7.t" is normalized to "7.T" and
\* flagged, "A" is not), and a flagged symbol is fetched like any other.
C16_SuffixAdvisory ==
  pc # "idle" =>
    /\ ui.hint <=> ForeignSuffix(symbol)
    /\ ForeignSuffix(symbol) => pc # "done" \/ invoked \/ hit

\* ------------------------------------------------------------------ C17
\* Requests and back-offs a fetch has made when the latest request on
\* endpoint f was its last step.
StoppedAt(f) ==
  /\ reqs[f] = IF noted[f] THEN 2 ELSE 1
  /\ f = "DAILY" => reqs["ADJUSTED"] = 0
  /\ f = "ADJUSTED" => reqs["DAILY"] = IF noted["DAILY"] THEN 2 ELSE 1
  /\ sleeps = (IF noted["DAILY"] THEN 1 ELSE 0)
              + (IF f = "ADJUSTED" /\ noted[f] THEN 1 ELSE 0)

\* C17: when a request of a fetch (primary, primary retry, adjusted, adjusted
\* retry) ends in a transport error or a non-2xx status, the fetch is over with
\* that request: no request and no back-off has followed it, nothing was
\* stored, and the pass is in its except branch with that failure, which it
\* then shows as the error or as the reason of the fallback.
C17_TransportErrorAborts ==
  /\ data.fail \in Failures =>
       pc = "except" /\ e = data.fail /\ StoppedAt("DAILY") /\ cache = call0.cache
  /\ data2.fail \in Failures =>
       pc = "except" /\ e = data2.fail /\ StoppedAt("ADJUSTED") /\ cache = call0.cache
  /\ pc = "except" => reqs # NoReqs
  /\ e \in Failures /\ pc \in {"timeframe", "done"} =>
       /\ reqs = NoReqs /\ sleeps = 0
       /\ \/ ui.error = e /\ ui.table = NoTable
          \/ ui.warning = e /\ status_msg = [kind |-> "fallback", msg |-> e]

\* The retry of the adjusted request, the fourth request of a fetch, has failed.
C17_Witness ==
  /\ pc = "except"
  /\ data2.fail \in Failures
  /\ reqs = [DAILY |-> 2, ADJUSTED |-> 2]
  /\ sleeps = 2

\* ------------------------------------------------------------------ C18
\* The identities in a sequence are pairwise different.
Distinct(ids) == \A i, j \in 1..Len(ids) : i # j => ids[i] # ids[j]

\* C18: whatever timeframe, window and moving-average setting a pass renders
\* with, at every moment the object last_ok holds for a symbol has the five
\* columns and all the rows of a table fetch_daily returns (no SMA columns,
\* no row cut off) and, outside the moment between fetch_daily's return and
\* line 97, exactly those of the frame fetch_daily last returned for that
\* symbol, and so has the value the cache holds under the symbol's key; in
\* that moment df is that frame; after lines 107-118 the objects these
\* lines created (the timeframe's, the tail's and its copy) are three
\* different objects, none of them df or an object of last_ok, dfp is the
\* last of them, and the columns of lines 117-118 are in dfp alone.
C18_StoredTablesUntouched ==
  /\ \A s \in DOMAIN kept :
       /\ kept[s] \in DOMAIN frames
       /\ frames[kept[s]].columns = Cols
       /\ frames[kept[s]].rows \in ObjectTables
       /\ \A i \in 1..Len(frames[kept[s]].rows) :
            DOMAIN frames[kept[s]].rows[i] = Cols \cup {"date"}
       /\ ~(opc = "ok" /\ s = names.symbol) => frames[kept[s]] = fetched[s]
  /\ opc = "ok" => frames[names.df] = fetched[names.symbol] /\ names.df \notin Kept
  /\ \A s \in Symbols :
       Key(s, API_KEY) \in DOMAIN data_cache =>
         /\ data_cache[Key(s, API_KEY)].table = fetched[s]
         /\ data_cache[Key(s, API_KEY)].table.columns = Cols
  /\ opc = "done" /\ made # << >> =>
       /\ Distinct(made)
       /\ \A i \in 1..Len(made) : made[i] \notin Kept \cup {names.df}
       /\ names.dfp = made[Len(made)]
       /\ names.df = kept[names.symbol]
       /\ DOMAIN frames = Kept \cup {names.dfp}
       /\ frames[names.dfp].columns \in {Cols, Cols \cup {"SMA20", "SMA50"}}

\* A pass whose fetch failed has rendered the daily view of the snapshot, the
\* very object last_ok holds, with the averages and a window shorter than the
\* table: dfp has the averages and the last rows, the snapshot is whole.
C18_Witness ==
  /\ opc = "done"
  /\ names.status = "fallback"
  /\ names.df = kept[names.symbol]
  /\ frames[names.dfp].columns = Cols \cup {"SMA20", "SMA50"}
  /\ Len(frames[names.dfp].rows) = PeriodMin
  /\ frames[names.dfp].rows[1].date = frames[names.df].rows[2].date
  /\ frames[names.dfp].rows[20].SMA20 # NoAvg
  /\ Len(frames[names.df].rows) = PeriodMin + 1
  /\ frames[names.df].columns = Cols

\* ------------------------------------------------------------------ C19
\* The least of two numbers.
Least(a, b) == IF a <= b THEN a ELSE b

\* C19: the rendered table has at most as many bars as the window; its bars
\* are the latest bars of the daily, weekly or monthly table, in ascending date
\* order; with the averages shown, its first 19 rows have no 20-bar average
\* and its first 49 rows no 50-bar average, however many bars were cut off
\* before them, and row 20 has a 20-bar average of rendered closes when none
\* of these is missing; with the averages not shown there are no such columns.
C19_AveragesAfterWindow ==
  cpc = "rendered" =>
    LET full == Timeframe(cin, cset.tf)
        cut == Len(full) - Len(cout)
    IN
    /\ Len(cout) = Least(cset.period, Len(full))
    /\ \A i \in 1..Len(cout) : cout[i].bar = full[cut + i]
    /\ \A i, j \in 1..Len(cout) : i < j => cout[i].bar.date < cout[j].bar.date
    /\ cset.tf = "daily" => full = cin
    /\ IF cset.show_sma
       THEN /\ \A i \in 1..Least(19, Len(cout)) : cout[i].SMA20 = NoAvg
            /\ \A i \in 1..Least(49, Len(cout)) : cout[i].SMA50 = NoAvg
            /\ Len(cout) >= 20 /\ (\A j \in 1..20 : cout[j].bar.Close # NaN) =>
                 cout[20].SMA20 = [sum |-> CloseSum(cout, 1, 20), n |-> 20]
       ELSE \A i \in 1..Len(cout) : DOMAIN cout[i] = {"bar"}

\* A daily table with more rows than the window has been rendered with the
\* averages: its first rows were cut off, row 20 of what is left has a 20-bar
\* average and row 50 a 50-bar average.
C19_Witness ==
  /\ cpc = "rendered"
  /\ cset = [tf |-> "daily", period |-> PeriodMin, show_sma |-> TRUE]
  /\ Len(cin) > PeriodMin
  /\ Len(cout) = PeriodMin
  /\ cout[1].bar.date > 1
  /\ cout[20].SMA20 # NoAvg
  /\ cout[50].SMA50 # NoAvg

\* ------------------------------------------------------------------ C20
\* C20: every cache entry and every snapshot holds a table fetched for the
\* symbol it is stored under; the table of a pass, and the table it renders
\* (fresh, cache hit or fallback), was fetched for the symbol of that pass and
\* is the table fetch_daily last returned for it; a pass whose fetch fails
\* renders nothing when only other symbols have a snapshot.
C20_SymbolIsolation ==
  /\ \A k \in DOMAIN cache : cache[k].table.sym = k[1]
  /\ \A s \in DOMAIN last_ok : last_ok[s].sym = s
  /\ \A s \in DOMAIN lastGood : lastGood[s].sym = s
  /\ df # NoTable => df.sym = symbol
  /\ ui.table # NoTable =>
       /\ symbol # << >>
       /\ ui.table.sym = symbol
       /\ ui.table = lastGood[symbol]
  /\ pc = "done" /\ e # "none" /\ symbol \notin DOMAIN pass0.last_ok => ui.table = NoTable

\* A pass has rendered a table for its symbol while the cache and the
\* Last-Known-Good store also hold a table of another symbol.
C20_Witness ==
  /\ pc = "done"
  /\ ui.table \in Tables
  /\ \E k \in DOMAIN cache : k[1] # symbol
  /\ \E s \in DOMAIN last_ok : s # symbol

====
